---------------------------- MODULE Spec2Model ----------------------------
(***************************************************************************)
(* Route / tracking data fusion of the shipment map (src/utils/            *)
(* shipmentData.ts and the two map views).                                  *)
(*                                                                          *)
(* Representation.                                                          *)
(*   - A JavaScript string is a sequence of one-character strings.          *)
(*   - A coordinate is an integer number of 1e-5 degrees (Deg units per     *)
(*     degree); [lat, lng] arrays are pairs <<lat, lng>>, {lat, lng}        *)
(*     objects are records.                                                  *)
(*   - null is the empty sequence NULL.                                     *)
(*   - Trigonometry is fixed point with six decimals (Scale); a distance    *)
(*     is an integer number of metres.  TLC's integers are 32 bits wide,    *)
(*     so every product is taken limb by limb (MulS).                       *)
(***************************************************************************)
EXTENDS Integers, Sequences, FiniteSets, TLC

VARIABLES
  LOCATION_COORDINATES,   \* the module-level legacy table (entries are returned by reference)
  op,                     \* the operation that produced the current state
  location,               \* argument of the latest getLocationCoordinates call
  coords,                 \* its return value
  tier,                   \* the return statement that produced it
  probe,                  \* a location string whose resolutions are compared
  other,                  \* another location string, resolved in between
  probeCoords,            \* what the first resolution of probe returned
  point1,                 \* calculateSeaWaypoints: first endpoint
  point2,                 \* calculateSeaWaypoints: second endpoint
  waypoints,              \* calculateSeaWaypoints: returned array
  shipment,               \* the active shipment of the map view
  shipmentTrackingData,   \* data/shipmentTracking.json: the "shipments" array
  shipmentDetailsData,    \* data/shipmentDetails.json: one record, or NULL
  view,                   \* which map view ran its route effect
  routeModel,             \* what that effect computed for drawing
  consulted,              \* the feeds the effect read, in order
  roundsAboveOne,         \* whether the haversine term of two antipodal points,
                          \* 1 up to rounding, is the double above 1
  jsonShipment,           \* a record of data/shipmentsList.json
  clock,                  \* what new Date() returned in each transformMilestone call
  cardMilestones,         \* shipment.milestones of the transformed shipment
  routeStops,             \* ShipmentCard: the stops of the card
  progress,               \* ShipmentCard: the width of the progress bar, in percent
  shipments,              \* ShipmentsPage: the list, handed to the map views
  expandedId,             \* map view: the id of the shipment whose card is open
  activeId,               \* map view: the id of the shipment clicked last
  currentPage,            \* map view: the page of the card list
  activeShipment,         \* map view: the active shipment of the latest render
  layers,                 \* the route lines on the map, each with its shipment
  renderPending,          \* map view: state was set after the latest render
  filters,                \* ShipmentsPage: the filters
  loading,                \* ShipmentsPage: the loading flag
  error,                  \* ShipmentsPage: the error message
  requests                \* ShipmentsPage: the calls of loadShipments, in order

vars == << LOCATION_COORDINATES, op, location, coords, tier, probe, other, probeCoords,
           point1, point2, waypoints,
           shipment, shipmentTrackingData, shipmentDetailsData, view, routeModel,
           consulted, roundsAboveOne,
           jsonShipment, clock, cardMilestones, routeStops, progress,
           shipments, expandedId, activeId, currentPage, activeShipment, layers,
           renderPending, filters, loading, error, requests >>

resolverVars == << location, coords, tier, probe, other, probeCoords >>
synthVars == << point1, point2, waypoints >>
fusionVars == << shipment, shipmentTrackingData, shipmentDetailsData, view,
                 routeModel, consulted >>
cardVars == << jsonShipment, clock, cardMilestones, routeStops, progress >>
mapVars == << expandedId, activeId, currentPage, activeShipment, layers, renderPending >>
pageVars == << shipments, filters, loading, error, requests >>

NULL == << >>

-----------------------------------------------------------------------------
(* Bounds of the model.                                                     *)

\* Longest location string enumerated over LocationAlphabet.
MaxLocationLen == 2

-----------------------------------------------------------------------------
(* Numbers.                                                                 *)

\* Units per degree: coordinates are integers of 1e-5 degree.
Deg == 10 ^ 5

\* Fixed-point scale of the trigonometric values (six decimals).
Scale == 10 ^ 6

Abs(x) == IF x < 0 THEN -x ELSE x

Min(S) == CHOOSE x \in S : \A y \in S : x <= y

Max(S) == CHOOSE x \in S : \A y \in S : x >= y

\* JavaScript's % : the remainder takes the sign of the dividend.
JsRem(a, b) ==
  LET r == a % b
  IN  IF a < 0 /\ r # 0 THEN r - b ELSE r

\* JavaScript's >> 3 on an int32: arithmetic shift, i.e. floor division by 8.
Shr3(h) == h \div 8

\* (a * b) / Scale for a, b >= 0, by limbs of three decimal digits.
MulS(a, b) ==
  LET a1 == a \div 1000
      a0 == a % 1000
      b1 == b \div 1000
      b0 == b % 1000
  IN  a1 * b1 + (a1 * b0 + a0 * b1) \div 1000 + (a0 * b0) \div 1000000

-----------------------------------------------------------------------------
(* Fixed-point trigonometry (angles in micro-radians, values times Scale).  *)

\* Math.PI, in micro-radians.
PI == 3141593

\* value * n / d, truncated toward zero, without leaving 32 bits.
ScaleBy(value, n, d) ==
  LET mag == Abs(value)
      r == (mag \div d) * n + ((mag % d) * n) \div d
  IN  IF value < 0 THEN -r ELSE r

\* degrees * Math.PI / 180, for an angle in coordinate units.
Radians(units) ==
  LET r == MulS(Abs(units), 174533)
  IN  IF units < 0 THEN -r ELSE r

\* sin(y) for 0 <= y <= PI / 2, by the Taylor series to y^11 in Horner form.
SinSeries(y) ==
  LET y2 == MulS(y, y)
      h5 == Scale - y2 \div 110
      h4 == Scale - MulS(y2, h5) \div 72
      h3 == Scale - MulS(y2, h4) \div 42
      h2 == Scale - MulS(y2, h3) \div 20
      h1 == Scale - MulS(y2, h2) \div 6
  IN  MulS(y, h1)

Square(s) == MulS(s, s)

\* An angle folded into [0, PI / 2] with the same squared sine.
FoldAngle(x) ==
  LET r == Abs(x) % PI
  IN  IF 2 * r > PI THEN PI - r ELSE r

\* Math.sin(x) ** 2 (an even function of period PI).
SinSq(x) == Square(SinSeries(FoldAngle(x)))

\* Math.cos(x) for -PI <= x <= PI.
Cos(x) ==
  LET r == Abs(x)
  IN  IF 2 * r <= PI THEN SinSeries(PI \div 2 - r)
      ELSE -SinSeries(r - PI \div 2)

\* Signed product of two fixed-point values.
MulSigned(a, b) ==
  LET r == MulS(Abs(a), Abs(b))
  IN  IF (a < 0) = (b < 0) THEN r ELSE -r

\* Whether Math.sqrt(a) or Math.sqrt(1 - a) is NaN: a outside [0, 1].
IsNaN(a) == a < 0 \/ a > Scale

\* 2 * Math.atan2(Math.sqrt(a), Math.sqrt(1 - a)) for 0 <= a <= 1: twice the least
\* angle in [0, PI / 2] whose squared sine reaches a, found by bisection.
RECURSIVE HalfAngle(_, _, _)
HalfAngle(a, lo, hi) ==
  IF hi - lo <= 1 THEN hi
  ELSE LET mid == (lo + hi) \div 2
       IN  IF SinSq(mid) >= a THEN HalfAngle(a, lo, mid) ELSE HalfAngle(a, mid, hi)

CentralAngle(a) == IF a = 0 THEN 0 ELSE 2 * HalfAngle(a, 0, PI \div 2)

\* 6371 * c: kilometres in the source, metres here.
EarthRadiusKm == 6371

Metres(c) == MulS(c, EarthRadiusKm * 1000)

-----------------------------------------------------------------------------
(* Waypoint synthesizer: calculateSeaWaypoints.                             *)

\* Two points opposite each other on the globe.
Antipodal(lat1, lon1, lat2, lon2) ==
  /\ lat1 + lat2 = 0
  /\ Abs(lon2 - lon1) = 180 * Deg

\* The term a as IEEE double arithmetic delivers it.  Between two antipodal points
\* it is sin^2 + cos^2 of one latitude: 1 up to the rounding of Math.sin and
\* Math.cos, and for some latitudes (8 and -8 degrees with longitudes 180 apart,
\* the antipodal pair of the inputs below) the double above 1.  Elsewhere it is
\* below 1.
RoundedTerm(a, antipodal) ==
  IF antipodal THEN (IF roundsAboveOne THEN Scale + 1 ELSE Scale)
  ELSE IF a > Scale THEN Scale
  ELSE a

\* 6371 * c for the haversine term a, in metres; -1 stands for NaN.
distanceOf(a) == IF IsNaN(a) THEN -1 ELSE Metres(CentralAngle(a))

\* Lines 445-446: the haversine term of the endpoints.
seaTerm(p1, p2) ==
  SinSq((Radians(p2[1]) - Radians(p1[1])) \div 2)
  + MulSigned(MulSigned(Cos(Radians(p1[1])), Cos(Radians(p2[1]))),
              SinSq(Radians(p2[2] - p1[2]) \div 2))

\* Lines 440-448: the distance between the endpoints.
seaDistance(p1, p2) ==
  distanceOf(RoundedTerm(seaTerm(p1, p2), Antipodal(p1[1], p1[2], p2[1], p2[2])))

\* point1 + (point2 - point1) * percent / 100, componentwise.
Interpolate(p1, p2, percent) ==
  << p1[1] + ScaleBy(p2[1] - p1[1], percent, 100),
     p1[2] + ScaleBy(p2[2] - p1[2], percent, 100) >>

\* waypoint[0] = waypoint[0] * percent / 100: the latitude pulled toward the equator.
TowardEquator(p, percent) == << ScaleBy(p[1], percent, 100), p[2] >>

\* Lines 451-481: two waypoints beyond 5000 km, one beyond 2000 km, else none.
waypointsFor(distance, p1, p2) ==
  IF distance > 5000 * 1000
    THEN << TowardEquator(Interpolate(p1, p2, 33), 85),
            TowardEquator(Interpolate(p1, p2, 67), 85) >>
  ELSE IF distance > 2000 * 1000
    THEN << TowardEquator(Interpolate(p1, p2, 50), 90) >>
  ELSE << >>

calculateSeaWaypoints(p1, p2) == waypointsFor(seaDistance(p1, p2), p1, p2)

-----------------------------------------------------------------------------
(* Haversine distance and nearest route point.                              *)

\* Lines 615-618: the haversine term.
haversineTerm(lat1, lon1, lat2, lon2) ==
  SinSq(Radians(lat2 - lat1) \div 2)
  + MulSigned(MulSigned(Cos(Radians(lat1)), Cos(Radians(lat2))),
              SinSq(Radians(lon2 - lon1) \div 2))

\* calculateDistance, in metres; -1 stands for NaN.
calculateDistance(lat1, lon1, lat2, lon2) ==
  distanceOf(RoundedTerm(haversineTerm(lat1, lon1, lat2, lon2),
                         Antipodal(lat1, lon1, lat2, lon2)))

-----------------------------------------------------------------------------
(* Strings.                                                                 *)

UpperCase ==
  << "A","B","C","D","E","F","G","H","I","J","K","L","M",
     "N","O","P","Q","R","S","T","U","V","W","X","Y","Z" >>

LowerCase ==
  << "a","b","c","d","e","f","g","h","i","j","k","l","m",
     "n","o","p","q","r","s","t","u","v","w","x","y","z" >>

\* The white space String.prototype.trim removes (of the characters used here).
WhiteSpace == { " ", "\t" }

IndexOf(c, seq) == CHOOSE k \in 1..Len(seq) : seq[k] = c

IsIn(c, seq) == \E k \in 1..Len(seq) : seq[k] = c

\* String.prototype.charCodeAt for one character.
charCodeAt(c) ==
  IF IsIn(c, UpperCase) THEN 64 + IndexOf(c, UpperCase)
  ELSE IF IsIn(c, LowerCase) THEN 96 + IndexOf(c, LowerCase)
  ELSE CASE c = "\t" -> 9
         [] c = " " -> 32
         [] c = "(" -> 40
         [] c = ")" -> 41
         [] c = "," -> 44
         [] c = "_" -> 95

toUpperCase(s) ==
  [i \in 1..Len(s) |->
     IF IsIn(s[i], LowerCase) THEN UpperCase[IndexOf(s[i], LowerCase)] ELSE s[i]]

toLowerCase(s) ==
  [i \in 1..Len(s) |->
     IF IsIn(s[i], UpperCase) THEN LowerCase[IndexOf(s[i], UpperCase)] ELSE s[i]]

trim(s) ==
  LET kept == { i \in 1..Len(s) : s[i] \notin WhiteSpace }
  IN  IF kept = {} THEN << >> ELSE SubSeq(s, Min(kept), Max(kept))

\* String.prototype.includes
includes(s, sub) ==
  \E i \in 0..(Len(s) - Len(sub)) : SubSeq(s, i + 1, i + Len(sub)) = sub

\* s.split(',')[0]
splitFirst(s) ==
  LET commas == { i \in 1..Len(s) : s[i] = "," }
  IN  IF commas = {} THEN s ELSE SubSeq(s, 1, Min(commas) - 1)

\* The last element of s.split(',')
splitLast(s) ==
  LET commas == { i \in 1..Len(s) : s[i] = "," }
  IN  IF commas = {} THEN s ELSE SubSeq(s, Max(commas) + 1, Len(s))

-----------------------------------------------------------------------------
(* The lookup tables, in insertion order (the order of Object.entries).     *)

PORT_COORDINATES ==
  << [key |-> <<"S","A","N","T","O","S",","," ","B","R","A","Z","I","L">>,
      lat |-> -2396080, lng |-> -4633390],   \* "SANTOS, BRAZIL" (line 100)
     [key |-> <<"S","A","N","T","O","S">>,
      lat |-> -2396080, lng |-> -4633390],   \* "SANTOS" (line 101)
     [key |-> <<"M","U","N","D","R","A">>,
      lat |-> 2283940, lng |-> 6971970],   \* "MUNDRA" (line 104)
     [key |-> <<"M","U","N","D","R","A",","," ","I","N","D","I","A">>,
      lat |-> 2283940, lng |-> 6971970],   \* "MUNDRA, INDIA" (line 105)
     [key |-> <<"N","H","A","V","A"," ","S","H","E","V","A">>,
      lat |-> 1894800, lng |-> 7295080],   \* "NHAVA SHEVA" (line 106)
     [key |-> <<"M","U","M","B","A","I">>,
      lat |-> 1893880, lng |-> 7283540],   \* "MUMBAI" (line 107)
     [key |-> <<"M","U","H","A","M","M","A","D"," ","B","I","N"," ","Q","A","S","I","M"," ","(","P","O","R","T"," ","Q","A","S","I","M",")",","," ","P","A","K","I","S","T","A","N">>,
      lat |-> 2478540, lng |-> 6734800],   \* "MUHAMMAD BIN QASIM (PORT QASIM), PAKISTAN" (line 110)
     [key |-> <<"P","O","R","T"," ","Q","A","S","I","M">>,
      lat |-> 2478540, lng |-> 6734800],   \* "PORT QASIM" (line 111)
     [key |-> <<"K","A","R","A","C","H","I">>,
      lat |-> 2484140, lng |-> 6700110],   \* "KARACHI" (line 112)
     [key |-> <<"K","A","R","A","C","H","I",","," ","P","A","K","I","S","T","A","N">>,
      lat |-> 2484140, lng |-> 6700110],   \* "KARACHI, PAKISTAN" (line 113)
     [key |-> <<"J","E","B","E","L"," ","A","L","I">>,
      lat |-> 2501180, lng |-> 5511210],   \* "JEBEL ALI" (line 116)
     [key |-> <<"D","U","B","A","I">>,
      lat |-> 2527690, lng |-> 5529620],   \* "DUBAI" (line 117)
     [key |-> <<"D","U","B","A","I",","," ","U","A","E">>,
      lat |-> 2527690, lng |-> 5529620],   \* "DUBAI, UAE" (line 118)
     [key |-> <<"S","I","N","G","A","P","O","R","E">>,
      lat |-> 126440, lng |-> 10382240],   \* "SINGAPORE" (line 121)
     [key |-> <<"S","H","A","N","G","H","A","I">>,
      lat |-> 3123040, lng |-> 12147370],   \* "SHANGHAI" (line 124)
     [key |-> <<"S","H","A","N","G","H","A","I",","," ","C","H","I","N","A">>,
      lat |-> 3123040, lng |-> 12147370],   \* "SHANGHAI, CHINA" (line 125)
     [key |-> <<"N","I","N","G","B","O">>,
      lat |-> 2986830, lng |-> 12154400],   \* "NINGBO" (line 126)
     [key |-> <<"N","I","N","G","B","O",","," ","C","H","I","N","A">>,
      lat |-> 2986830, lng |-> 12154400],   \* "NINGBO, CHINA" (line 127)
     [key |-> <<"S","H","E","N","Z","H","E","N">>,
      lat |-> 2254310, lng |-> 11405790],   \* "SHENZHEN" (line 128)
     [key |-> <<"S","H","E","N","Z","H","E","N",","," ","C","H","I","N","A">>,
      lat |-> 2254310, lng |-> 11405790],   \* "SHENZHEN, CHINA" (line 129)
     [key |-> <<"Q","I","N","G","D","A","O",","," ","C","H","I","N","A">>,
      lat |-> 3606670, lng |-> 12038330],   \* "QINGDAO, CHINA" (line 130)
     [key |-> <<"L","O","S"," ","A","N","G","E","L","E","S">>,
      lat |-> 3374050, lng |-> -11827200],   \* "LOS ANGELES" (line 133)
     [key |-> <<"L","O","S"," ","A","N","G","E","L","E","S",","," ","U","S","A">>,
      lat |-> 3374050, lng |-> -11827200],   \* "LOS ANGELES, USA" (line 134)
     [key |-> <<"L","O","N","G"," ","B","E","A","C","H">>,
      lat |-> 3375530, lng |-> -11822560],   \* "LONG BEACH" (line 135)
     [key |-> <<"N","E","W"," ","Y","O","R","K">>,
      lat |-> 4066350, lng |-> -7403540],   \* "NEW YORK" (line 136)
     [key |-> <<"N","E","W"," ","Y","O","R","K",","," ","U","S","A">>,
      lat |-> 4066350, lng |-> -7403540],   \* "NEW YORK, USA" (line 137)
     [key |-> <<"R","O","T","T","E","R","D","A","M">>,
      lat |-> 5192440, lng |-> 447770],   \* "ROTTERDAM" (line 140)
     [key |-> <<"H","A","M","B","U","R","G">>,
      lat |-> 5353950, lng |-> 998470],   \* "HAMBURG" (line 141)
     [key |-> <<"A","N","T","W","E","R","P">>,
      lat |-> 5128940, lng |-> 430530] >>   \* "ANTWERP" (line 142)

\* The table as the module is loaded; LOCATION_COORDINATES is the live object.
LOCATION_COORDINATES_INITIAL ==
  << [key |-> <<"Q","I","N","G","D","A","O",","," ","C","H","I","N","A">>,
      lat |-> 3606670, lng |-> 12038330],   \* "QINGDAO, CHINA" (line 148)
     [key |-> <<"S","H","A","N","G","H","A","I",","," ","C","H","I","N","A">>,
      lat |-> 3123040, lng |-> 12147370],   \* "SHANGHAI, CHINA" (line 149)
     [key |-> <<"N","I","N","G","B","O",","," ","C","H","I","N","A">>,
      lat |-> 2986830, lng |-> 12154400],   \* "NINGBO, CHINA" (line 150)
     [key |-> <<"G","U","A","N","G","Z","H","O","U",","," ","C","H","I","N","A">>,
      lat |-> 2312910, lng |-> 11326440],   \* "GUANGZHOU, CHINA" (line 151)
     [key |-> <<"S","H","E","N","Z","H","E","N",","," ","C","H","I","N","A">>,
      lat |-> 2254310, lng |-> 11405790],   \* "SHENZHEN, CHINA" (line 152)
     [key |-> <<"K","A","R","A","C","H","I",","," ","P","A","K","I","S","T","A","N">>,
      lat |-> 2486070, lng |-> 6700110],   \* "KARACHI, PAKISTAN" (line 155)
     [key |-> <<"P","O","R","T"," ","Q","A","S","I","M",","," ","P","A","K","I","S","T","A","N">>,
      lat |-> 2476670, lng |-> 6733330],   \* "PORT QASIM, PAKISTAN" (line 156)
     [key |-> <<"M","U","H","A","M","M","A","D"," ","B","I","N"," ","Q","A","S","I","M"," ","(","P","O","R","T"," ","Q","A","S","I","M",")",","," ","P","A","K","I","S","T","A","N">>,
      lat |-> 2476670, lng |-> 6733330],   \* "MUHAMMAD BIN QASIM (PORT QASIM), PAKISTAN" (line 157)
     [key |-> <<"K","H","A","L","I","F","A",","," ","A","B","U"," ","D","H","A","B","I">>,
      lat |-> 2445390, lng |-> 5437730],   \* "KHALIFA, ABU DHABI" (line 160)
     [key |-> <<"D","U","B","A","I",","," ","U","A","E">>,
      lat |-> 2520480, lng |-> 5527080],   \* "DUBAI, UAE" (line 161)
     [key |-> <<"L","A","E","M"," ","C","H","A","B","A","N","G",","," ","T","H","A","I","L","A","N","D">>,
      lat |-> 1308330, lng |-> 10088330],   \* "LAEM CHABANG, THAILAND" (line 164)
     [key |-> <<"B","A","N","G","K","O","K",","," ","T","H","A","I","L","A","N","D">>,
      lat |-> 1375630, lng |-> 10050180],   \* "BANGKOK, THAILAND" (line 165)
     [key |-> <<"B","U","S","A","N",","," ","S","O","U","T","H"," ","K","O","R","E","A">>,
      lat |-> 3517960, lng |-> 12907560],   \* "BUSAN, SOUTH KOREA" (line 168)
     [key |-> <<"S","E","O","U","L",","," ","S","O","U","T","H"," ","K","O","R","E","A">>,
      lat |-> 3756650, lng |-> 12697800],   \* "SEOUL, SOUTH KOREA" (line 169)
     [key |-> <<"N","O","R","F","L","O","K",","," ","U","S","A">>,
      lat |-> 3684680, lng |-> -7628520],   \* "NORFLOK, USA" (line 172)
     [key |-> <<"N","O","R","F","O","L","K",","," ","U","S","A">>,
      lat |-> 3684680, lng |-> -7628520],   \* "NORFOLK, USA" (line 173)
     [key |-> <<"N","E","W"," ","Y","O","R","K",","," ","U","S","A">>,
      lat |-> 4071280, lng |-> -7400600],   \* "NEW YORK, USA" (line 174)
     [key |-> <<"L","O","S"," ","A","N","G","E","L","E","S",","," ","U","S","A">>,
      lat |-> 3405220, lng |-> -11824370],   \* "LOS ANGELES, USA" (line 175)
     [key |-> <<"S","A","N","T","O","S",","," ","B","R","A","Z","I","L">>,
      lat |-> -2396080, lng |-> -4633310],   \* "SANTOS, BRAZIL" (line 178)
     [key |-> <<"S","A","O"," ","P","A","U","L","O",","," ","B","R","A","Z","I","L">>,
      lat |-> -2355050, lng |-> -4663330],   \* "SAO PAULO, BRAZIL" (line 179)
     [key |-> <<"M","U","N","D","R","A">>,
      lat |-> 2283970, lng |-> 6972140],   \* "MUNDRA" (line 182)
     [key |-> <<"M","U","M","B","A","I",","," ","I","N","D","I","A">>,
      lat |-> 1907600, lng |-> 7287770],   \* "MUMBAI, INDIA" (line 183)
     [key |-> <<"M","E","S","A","I","E","E","D",","," ","Q","A","T","A","R">>,
      lat |-> 2499240, lng |-> 5154720],   \* "MESAIEED, QATAR" (line 186)
     [key |-> <<"D","O","H","A",","," ","Q","A","T","A","R">>,
      lat |-> 2528540, lng |-> 5153100] >>   \* "DOHA, QATAR" (line 187)

countryCenters ==
  << [key |-> <<"C","H","I","N","A">>,
      lat |-> 3586170, lng |-> 10419540],   \* "CHINA" (line 403)
     [key |-> <<"P","A","K","I","S","T","A","N">>,
      lat |-> 3037530, lng |-> 6934510],   \* "PAKISTAN" (line 404)
     [key |-> <<"U","A","E">>,
      lat |-> 2342410, lng |-> 5384780],   \* "UAE" (line 405)
     [key |-> <<"U","N","I","T","E","D"," ","A","R","A","B"," ","E","M","I","R","A","T","E","S">>,
      lat |-> 2342410, lng |-> 5384780],   \* "UNITED ARAB EMIRATES" (line 406)
     [key |-> <<"T","H","A","I","L","A","N","D">>,
      lat |-> 1587000, lng |-> 10099250],   \* "THAILAND" (line 407)
     [key |-> <<"S","O","U","T","H"," ","K","O","R","E","A">>,
      lat |-> 3590780, lng |-> 12776690],   \* "SOUTH KOREA" (line 408)
     [key |-> <<"K","O","R","E","A">>,
      lat |-> 3590780, lng |-> 12776690],   \* "KOREA" (line 409)
     [key |-> <<"U","S","A">>,
      lat |-> 3709020, lng |-> -9571290],   \* "USA" (line 410)
     [key |-> <<"U","N","I","T","E","D"," ","S","T","A","T","E","S">>,
      lat |-> 3709020, lng |-> -9571290],   \* "UNITED STATES" (line 411)
     [key |-> <<"B","R","A","Z","I","L">>,
      lat |-> -1423500, lng |-> -5192530],   \* "BRAZIL" (line 412)
     [key |-> <<"I","N","D","I","A">>,
      lat |-> 2059370, lng |-> 7896290],   \* "INDIA" (line 413)
     [key |-> <<"Q","A","T","A","R">>,
      lat |-> 2535480, lng |-> 5118390] >>   \* "QATAR" (line 414)


-----------------------------------------------------------------------------
(* Coordinate resolver: getLocationCoordinates.                             *)

\* Index of the first entry 1..n that satisfies Match, 0 when none does
\* (a for..of over Object.entries that returns at the first hit).
FirstMatch(n, Match(_)) ==
  LET hits == { i \in 1..n : Match(i) }
  IN  IF hits = {} THEN 0 ELSE Min(hits)

\* table[normalized]: the entry stored under exactly that key, 0 when undefined.
ExactMatch(table, normalized) ==
  LET IsKey(i) == table[i].key = normalized
  IN  FirstMatch(Len(table), IsKey)

\* Line 201: keyNormalized = key.toUpperCase(), for every key of PORT_COORDINATES.
keyNormalized ==
  [i \in 1..Len(PORT_COORDINATES) |-> toUpperCase(PORT_COORDINATES[i].key)]

\* Line 202: keyNormalized.split(',')[0]
keyNormalizedFirst ==
  [i \in 1..Len(PORT_COORDINATES) |-> splitFirst(keyNormalized[i])]

\* Lines 200-205.
PortPartialMatch(normalized) ==
  LET first == splitFirst(normalized)
      Partial(i) ==
        \/ includes(normalized, keyNormalizedFirst[i])
        \/ includes(keyNormalized[i], first)
  IN  FirstMatch(Len(PORT_COORDINATES), Partial)

\* Lines 213-217: the legacy table's keys are used as written.
LocationPartialMatch(normalized) ==
  LET first == splitFirst(normalized)
      Partial(i) ==
        \/ includes(normalized, splitFirst(LOCATION_COORDINATES[i].key))
        \/ includes(LOCATION_COORDINATES[i].key, first)
  IN  FirstMatch(Len(LOCATION_COORDINATES), Partial)

\* One round of the loop at lines 221-224: hash = ((hash << 5) - hash + code) | 0,
\* i.e. 31 * hash + code wrapped to a signed 32-bit integer (by 16-bit halves).
hashStep(hash, code) ==
  LET hi == hash \div 65536
      lo == hash % 65536
      t  == 31 * lo + code
      h2 == ((31 * hi + (t \div 65536) + 32768) % 65536) - 32768
  IN  h2 * 65536 + (t % 65536)

RECURSIVE hashFrom(_, _, _)
hashFrom(s, i, hash) ==
  IF i > Len(s) THEN hash
  ELSE hashFrom(s, i + 1, hashStep(hash, charCodeAt(s[i])))

\* The rolling hash of the string as passed in (lines 220-224).
hashCode(s) == hashFrom(s, 1, 0)

\* Lines 225-227: the pseudo-coordinate derived from the hash.
hashCoordinates(hash) ==
  << JsRem(hash, 12000) * (Deg \div 100) - 60 * Deg,
     JsRem(Shr3(hash), 34000) * (Deg \div 100) - 170 * Deg >>

\* The table entry getLocationCoordinates returns from, with the return
\* statement it leaves by ("hash": no entry, the fallback at lines 219-227).
matchOf(loc) ==
  LET normalized == trim(toUpperCase(loc))
      portExact == ExactMatch(PORT_COORDINATES, normalized)
      portPartial == PortPartialMatch(normalized)
      locExact == ExactMatch(LOCATION_COORDINATES, normalized)
      locPartial == LocationPartialMatch(normalized)
  IN  IF portExact # 0 THEN [tier |-> "port-exact", index |-> portExact]
      ELSE IF portPartial # 0 THEN [tier |-> "port-partial", index |-> portPartial]
      ELSE IF locExact # 0 THEN [tier |-> "location-exact", index |-> locExact]
      ELSE IF locPartial # 0 THEN [tier |-> "location-partial", index |-> locPartial]
      ELSE [tier |-> "hash", index |-> 0]

PortTiers == { "port-exact", "port-partial" }

LocationTiers == { "location-exact", "location-partial" }

\* Variant of coordinatesOf that returns null where no table matches.
coordinatesOrNull(m, loc) ==
  IF m.tier \in PortTiers
    THEN << PORT_COORDINATES[m.index].lat, PORT_COORDINATES[m.index].lng >>
  ELSE IF m.tier \in LocationTiers
    THEN << LOCATION_COORDINATES[m.index].lat, LOCATION_COORDINATES[m.index].lng >>
  ELSE NULL

\* Variant of coordinatesOf whose rolling hash is not reset between calls: after a
\* call that reached the hash fallback it starts from that call's hash.
coordinatesOfLeakingHash(m, loc) ==
  IF m.tier \in PortTiers
    THEN << PORT_COORDINATES[m.index].lat, PORT_COORDINATES[m.index].lng >>
  ELSE IF m.tier \in LocationTiers
    THEN << LOCATION_COORDINATES[m.index].lat, LOCATION_COORDINATES[m.index].lng >>
  ELSE hashCoordinates(hashFrom(loc, 1, IF tier = "hash" THEN hashCode(location) ELSE 0))

\* The value returned for the match m of loc.
coordinatesOf(m, loc) ==
  IF m.tier \in PortTiers
    THEN << PORT_COORDINATES[m.index].lat, PORT_COORDINATES[m.index].lng >>
  ELSE IF m.tier \in LocationTiers
    THEN << LOCATION_COORDINATES[m.index].lat, LOCATION_COORDINATES[m.index].lng >>
  ELSE hashCoordinates(hashCode(loc))

getLocationCoordinates(loc) == coordinatesOf(matchOf(loc), loc)

\* extractCountry: the last comma-separated part, trimmed; the whole string when
\* that part is empty.
extractCountry(loc) ==
  LET last == trim(splitLast(loc))
  IN  IF last = << >> THEN loc ELSE last

\* getCountryCenterCoordinates: exact key, then the first key that contains or is
\* contained in the name; NULL when there is none.
getCountryCenterCoordinates(country) ==
  LET normalized == trim(toUpperCase(country))
      Partial(i) ==
        \/ includes(normalized, countryCenters[i].key)
        \/ includes(countryCenters[i].key, normalized)
      exact == ExactMatch(countryCenters, normalized)
      part == FirstMatch(Len(countryCenters), Partial)
  IN  IF exact # 0 THEN << countryCenters[exact].lat, countryCenters[exact].lng >>
      ELSE IF part # 0 THEN << countryCenters[part].lat, countryCenters[part].lng >>
      ELSE NULL

-----------------------------------------------------------------------------
(* Nearest route point.                                                     *)

\* Infinity, the initial minDistance of findClosestSeaWaypoint.
Infinity == 2147483647

\* Variant of LessThan with <= for <: among equally distant points the last one wins.
LessThanOrEqual(distance, minDistance) ==
  /\ distance # -1
  /\ distance <= minDistance

\* distance < minDistance as JavaScript evaluates it (NaN compares false).
LessThan(distance, minDistance) ==
  /\ distance # -1
  /\ distance < minDistance

\* The loop of findClosestSeaWaypoint from index i on: the index of closestPoint.
RECURSIVE closestFrom(_, _, _, _, _, _)
RECURSIVE closestStep(_, _, _, _, _, _, _)
closestFrom(targetLat, targetLon, routePoints, i, minDistance, closest) ==
  IF i > Len(routePoints) THEN closest
  ELSE closestStep(targetLat, targetLon, routePoints, i, minDistance, closest,
                   calculateDistance(targetLat, targetLon,
                                     routePoints[i].lat, routePoints[i].lng))

\* One round of the loop, with the distance of routePoints[i].
closestStep(targetLat, targetLon, routePoints, i, minDistance, closest, distance) ==
  IF LessThan(distance, minDistance)
    THEN closestFrom(targetLat, targetLon, routePoints, i + 1, distance, i)
    ELSE closestFrom(targetLat, targetLon, routePoints, i + 1, minDistance, closest)

\* findClosestSeaWaypoint: NULL for an empty route, else the first point at the
\* least distance (closestPoint starts as routePoints[0]).
findClosestSeaWaypoint(targetLat, targetLon, routePoints) ==
  IF Len(routePoints) = 0 THEN NULL
  ELSE routePoints[closestFrom(targetLat, targetLon, routePoints, 1, Infinity, 1)]

-----------------------------------------------------------------------------
(* The tracking feed.                                                       *)

\* An optional JSON value: << >> is null, << v >> is the value v.
Some(v) == << v >>

\* shipment.id || shipment.orderNumber
shipmentKey(ship) == IF ship.id # "" THEN ship.id ELSE ship.orderNumber

\* getShipmentTrackingData: the first record with that id or order number, as an
\* optional value.
getShipmentTrackingData(feed, key) ==
  LET hits == { i \in 1..Len(feed) :
                  feed[i].shipment_id = key \/ feed[i].shipment_order_number = key }
  IN  IF hits = {} THEN NULL ELSE Some(feed[Min(hits)])

\* { lat: p.latitude, lng: p.longitude }
toLatLng(p) == [lat |-> p.latitude, lng |-> p.longitude]

mapLatLng(route) == [i \in 1..Len(route) |-> toLatLng(route[i])]

delivered == <<"d","e","l","i","v","e","r","e","d">>

closed == <<"c","l","o","s","e","d">>

\* Variant of vesselPosition that keeps the position the feed reports.
vesselPositionAsReported(trackingData) == toLatLng(trackingData.current_position)

\* Variant of vesselPosition without the rule for a ship at its origin.
vesselPositionWithoutOriginRule(trackingData) ==
  LET completedRoute == mapLatLng(trackingData.route_coordinates.completed_route)
      remainingRoute == mapLatLng(trackingData.route_coordinates.remaining_route)
      currentPosition == toLatLng(trackingData.current_position)
      isAtDestination ==
        \/ Len(remainingRoute) = 0
        \/ toLowerCase(trackingData.shipment_status) \in { delivered, closed }
  IN  IF isAtDestination /\ Len(completedRoute) > 0
        THEN completedRoute[Len(completedRoute)]
      ELSE IF Len(remainingRoute) > 0
        THEN findClosestSeaWaypoint(currentPosition.lat, currentPosition.lng,
                                    remainingRoute)
      ELSE IF Len(completedRoute) > 0
        THEN findClosestSeaWaypoint(currentPosition.lat, currentPosition.lng,
                                    completedRoute)
      ELSE currentPosition

\* Variant of vesselPosition that compares the status without lowering its case.
vesselPositionCaseSensitive(trackingData) ==
  LET completedRoute == mapLatLng(trackingData.route_coordinates.completed_route)
      remainingRoute == mapLatLng(trackingData.route_coordinates.remaining_route)
      currentPosition == toLatLng(trackingData.current_position)
      isAtOrigin == Len(completedRoute) = 0
      isAtDestination ==
        \/ Len(remainingRoute) = 0
        \/ trackingData.shipment_status \in { delivered, closed }
  IN  IF isAtOrigin /\ Len(remainingRoute) > 0 THEN remainingRoute[1]
      ELSE IF isAtDestination /\ Len(completedRoute) > 0
        THEN completedRoute[Len(completedRoute)]
      ELSE IF Len(remainingRoute) > 0
        THEN findClosestSeaWaypoint(currentPosition.lat, currentPosition.lng,
                                    remainingRoute)
      ELSE IF Len(completedRoute) > 0
        THEN findClosestSeaWaypoint(currentPosition.lat, currentPosition.lng,
                                    completedRoute)
      ELSE currentPosition

\* Lines 674-705: the vessel marker position.
vesselPosition(trackingData) ==
  LET completedRoute == mapLatLng(trackingData.route_coordinates.completed_route)
      remainingRoute == mapLatLng(trackingData.route_coordinates.remaining_route)
      currentPosition == toLatLng(trackingData.current_position)
      isAtOrigin == Len(completedRoute) = 0
      isAtDestination ==
        \/ Len(remainingRoute) = 0
        \/ toLowerCase(trackingData.shipment_status) \in { delivered, closed }
  IN  IF isAtOrigin /\ Len(remainingRoute) > 0 THEN remainingRoute[1]
      ELSE IF isAtDestination /\ Len(completedRoute) > 0
        THEN completedRoute[Len(completedRoute)]
      ELSE IF Len(remainingRoute) > 0
        THEN findClosestSeaWaypoint(currentPosition.lat, currentPosition.lng,
                                    remainingRoute)
      ELSE IF Len(completedRoute) > 0
        THEN findClosestSeaWaypoint(currentPosition.lat, currentPosition.lng,
                                    completedRoute)
      ELSE currentPosition

\* Lines 651-742: the object returned for a record of the feed.
trackingForMap(trackingData) ==
  [ completedRoute |-> mapLatLng(trackingData.route_coordinates.completed_route),
    remainingRoute |-> mapLatLng(trackingData.route_coordinates.remaining_route),
    currentPosition |-> vesselPosition(trackingData),
    ports |-> [ origin |-> toLatLng(trackingData.route_info.origin.coordinates),
                destination |->
                  toLatLng(trackingData.route_info.destination.coordinates) ] ]

\* The object for an optional record.
trackingForMapOf(found) == IF found = NULL THEN NULL ELSE trackingForMap(found[1])

\* getShipmentTrackingForMap: NULL when the feed holds no record of the shipment.
getShipmentTrackingForMap(feed, ship) ==
  trackingForMapOf(getShipmentTrackingData(feed, shipmentKey(ship)))

-----------------------------------------------------------------------------
(* Dates.  An instant is a whole number of days since 1970-01-01; a Date is *)
(* a record [valid, time], an Invalid Date having valid = FALSE.            *)

InvalidDate == [valid |-> FALSE, time |-> 0]

DateAt(t) == [valid |-> TRUE, time |-> t]

Digits == << "0","1","2","3","4","5","6","7","8","9" >>

isDigits(s) == \A i \in 1..Len(s) : IsIn(s[i], Digits)

\* The number a string of digits denotes.
RECURSIVE numberOf(_)
numberOf(s) ==
  IF Len(s) = 0 THEN 0
  ELSE 10 * numberOf(SubSeq(s, 1, Len(s) - 1)) + (IndexOf(s[Len(s)], Digits) - 1)

isLeapYear(year) == year % 400 = 0 \/ (year % 4 = 0 /\ year % 100 # 0)

daysInMonth(year, month) ==
  IF month = 2 THEN (IF isLeapYear(year) THEN 29 ELSE 28)
  ELSE IF month \in {4, 6, 9, 11} THEN 30
  ELSE 31

\* Leap years before the given year.
leapYearsBefore(year) ==
  ((year - 1) \div 4) - ((year - 1) \div 100) + ((year - 1) \div 400)

RECURSIVE daysBeforeMonth(_, _)
daysBeforeMonth(year, month) ==
  IF month = 1 THEN 0
  ELSE daysBeforeMonth(year, month - 1) + daysInMonth(year, month - 1)

\* The instant of a calendar date.
instantOf(year, month, day) ==
  365 * (year - 1970) + (leapYearsBefore(year) - leapYearsBefore(1970))
    + daysBeforeMonth(year, month) + (day - 1)

\* parseISO of date-fns for the strings used here: a calendar date YYYY-MM-DD
\* that exists gives its Date; a calendar date that does not exist, or a string
\* that is no ISO 8601 date, gives an Invalid Date.
parseISO(s) ==
  IF /\ Len(s) = 10 /\ s[5] = "-" /\ s[8] = "-"
     /\ isDigits(SubSeq(s, 1, 4)) /\ isDigits(SubSeq(s, 6, 7)) /\ isDigits(SubSeq(s, 9, 10))
  THEN LET year == numberOf(SubSeq(s, 1, 4))
           month == numberOf(SubSeq(s, 6, 7))
           day == numberOf(SubSeq(s, 9, 10))
       IN  IF month \in 1..12 /\ day >= 1 /\ day <= daysInMonth(year, month)
             THEN DateAt(instantOf(year, month, day))
             ELSE InvalidDate
  ELSE InvalidDate

\* new Date(s).getTime() for a calendar date YYYY-MM-DD that exists.
getTime(s) == parseISO(s).time

-----------------------------------------------------------------------------
(* The details feed.                                                        *)

\* A sort that leaves the milestones in feed order.
insertInFeedOrder(sorted, m) == Append(sorted, m)

\* The comparator of lines 539-543 puts a milestone without start_date after every
\* other one and orders the dated ones by time; Array.prototype.sort is stable.
RECURSIVE insertSorted(_, _)
insertSorted(sorted, m) ==
  IF Len(sorted) = 0 THEN << m >>
  ELSE LET last == sorted[Len(sorted)]
           before == /\ m.start_date # NULL
                     /\ \/ last.start_date = NULL
                        \/ getTime(m.start_date[1]) < getTime(last.start_date[1])
       IN  IF before
             THEN Append(insertSorted(SubSeq(sorted, 1, Len(sorted) - 1), m), last)
             ELSE Append(sorted, m)

RECURSIVE sortByStartDate(_)
sortByStartDate(ms) ==
  IF Len(ms) = 0 THEN << >>
  ELSE insertSorted(sortByStartDate(SubSeq(ms, 1, Len(ms) - 1)), ms[Len(ms)])

\* Lines 547-567: one port point per located milestone.  The location of a route
\* point is a label that neither map view reads; here it names the point's origin.
portPointsOf(milestones) ==
  [ i \in 1..Len(milestones) |->
      LET milestone == milestones[i]
      IN  [ coords |-> IF milestone.latitude # NULL /\ milestone.longitude # NULL
                         THEN << milestone.latitude[1], milestone.longitude[1] >>
                         ELSE getLocationCoordinates(milestone.location[1]),
            location |-> "port" ] ]

\* The route points of the waypoints between two ports.
seaRoutePoints(seaWaypoints) ==
  [ k \in 1..Len(seaWaypoints) |-> [coords |-> seaWaypoints[k], location |-> "Sea Route"] ]

\* Lines 570-588: every port point followed by the sea waypoints to the next one.
RECURSIVE interleave(_, _)
interleave(portPoints, index) ==
  IF index > Len(portPoints) THEN << >>
  ELSE << portPoints[index] >>
       \o (IF index < Len(portPoints)
             THEN seaRoutePoints(calculateSeaWaypoints(portPoints[index].coords,
                                                       portPoints[index + 1].coords))
             ELSE << >>)
       \o interleave(portPoints, index + 1)

\* Lines 534-543: the milestones that have a location, sorted by start date.
milestonesWithLocation(details) ==
  LET HasLocation(m) == m.location # NULL
  IN  sortByStartDate(SelectSeq(details.shipment_milestones, HasLocation))

\* getShipmentRouteCoordinatesFromDetails: empty unless the details record is the
\* shipment's.
getShipmentRouteCoordinatesFromDetails(detailsData, shipmentId) ==
  IF detailsData = NULL \/ detailsData[1].id # shipmentId THEN << >>
  ELSE interleave(portPointsOf(milestonesWithLocation(detailsData[1])), 1)

-----------------------------------------------------------------------------
(* The calculated route.                                                    *)

\* getCoastalPoint's table (lines 489-502), in insertion order.
coastalPoints(isOrigin) ==
  << [key |-> <<"C","H","I","N","A">>,
      coords |-> IF isOrigin THEN << 3123040, 12147370 >> ELSE << 3606670, 12038330 >>],
     [key |-> <<"P","A","K","I","S","T","A","N">>, coords |-> << 2486070, 6700110 >>],
     [key |-> <<"U","A","E">>, coords |-> << 2520480, 5527080 >>],
     [key |-> <<"U","N","I","T","E","D"," ","A","R","A","B"," ","E","M","I","R","A","T","E","S">>,
      coords |-> << 2520480, 5527080 >>],
     [key |-> <<"T","H","A","I","L","A","N","D">>, coords |-> << 1308330, 10088330 >>],
     [key |-> <<"S","O","U","T","H"," ","K","O","R","E","A">>,
      coords |-> << 3517960, 12907560 >>],
     [key |-> <<"K","O","R","E","A">>, coords |-> << 3517960, 12907560 >>],
     [key |-> <<"U","S","A">>,
      coords |-> IF isOrigin THEN << 3405220, -11824370 >> ELSE << 4071280, -7400600 >>],
     [key |-> <<"U","N","I","T","E","D"," ","S","T","A","T","E","S">>,
      coords |-> IF isOrigin THEN << 3405220, -11824370 >> ELSE << 4071280, -7400600 >>],
     [key |-> <<"B","R","A","Z","I","L">>, coords |-> << -2396080, -4633310 >>],
     [key |-> <<"I","N","D","I","A">>, coords |-> << 1907600, 7287770 >>],
     [key |-> <<"Q","A","T","A","R">>, coords |-> << 2528540, 5153100 >>] >>

\* getCoastalPoint: exact key, then the first key containing or contained in the
\* country; NULL when there is none.
getCoastalPoint(country, isOrigin) ==
  LET normalized == trim(toUpperCase(country))
      table == coastalPoints(isOrigin)
      Partial(i) ==
        \/ includes(normalized, table[i].key)
        \/ includes(table[i].key, normalized)
      exact == ExactMatch(table, normalized)
      part == FirstMatch(Len(table), Partial)
  IN  IF exact # 0 THEN table[exact].coords
      ELSE IF part # 0 THEN table[part].coords
      ELSE NULL

\* Lines 812-813 and 832-833: more than half a degree apart in latitude or longitude.
FarApart(p, q) ==
  \/ 2 * Abs(p[1] - q[1]) > Deg
  \/ 2 * Abs(p[2] - q[2]) > Deg

\* Lines 804-808: a point of the calculated route (it carries no location).
calculatedPoint(c) == [coords |-> c, location |-> "calculated"]

calculatedPoints(cs) == [ k \in 1..Len(cs) |-> calculatedPoint(cs[k]) ]

\* Variant of assembleRoute that passes through both coastal points in every case.
assembleRouteWithCoasts(originCoords, destCoords, originCoastal, destCoastal) ==
  << calculatedPoint(originCoords), calculatedPoint(originCoastal) >>
  \o calculatedPoints(calculateSeaWaypoints(originCoastal, destCoastal))
  \o << calculatedPoint(destCoastal), calculatedPoint(destCoords) >>

\* Lines 803-848: origin, coastal points, sea waypoints, destination.
assembleRoute(originCoords, destCoords, originCoastal, destCoastal) ==
  << calculatedPoint(originCoords) >>
  \o (IF FarApart(originCoastal, originCoords)
        THEN << calculatedPoint(originCoastal) >> ELSE << >>)
  \o calculatedPoints(calculateSeaWaypoints(originCoastal, destCoastal))
  \o (IF FarApart(destCoastal, destCoords)
        THEN << calculatedPoint(destCoastal) >> ELSE << >>)
  \o << calculatedPoint(destCoords) >>

\* Lines 791-801: nothing without both coordinates; a missing coastal point is
\* replaced by the coordinate itself.
routeBetween(originCoords, destCoords, coastalO, coastalD) ==
  IF originCoords = NULL \/ destCoords = NULL THEN << >>
  ELSE assembleRoute(originCoords, destCoords,
                     IF coastalO # NULL THEN coastalO ELSE originCoords,
                     IF coastalD # NULL THEN coastalD ELSE destCoords)

\* Lines 784-848: the calculated route.
calculatedRoute(ship) ==
  routeBetween(getLocationCoordinates(ship.origin),
               getLocationCoordinates(ship.destination),
               getCoastalPoint(extractCountry(ship.origin), TRUE),
               getCoastalPoint(extractCountry(ship.destination), FALSE))

\* Lines 748-776: the tracking feed's two routes, one after the other.
trackingRoute(feed, ship) ==
  LET found == getShipmentTrackingData(feed, shipmentKey(ship))
  IN  IF found = NULL THEN << >>
      ELSE LET routes == found[1].route_coordinates
           IN  [ i \in 1..Len(routes.completed_route) |->
                   [ coords |-> << routes.completed_route[i].latitude,
                                   routes.completed_route[i].longitude >>,
                     location |-> "Completed Route" ] ]
               \o
               [ i \in 1..Len(routes.remaining_route) |->
                   [ coords |-> << routes.remaining_route[i].latitude,
                                   routes.remaining_route[i].longitude >>,
                     location |-> "Remaining Route" ] ]

\* The first of the three routes that has a point.
firstRoute(fromTracking, detailsRoute, calculated) ==
  IF Len(fromTracking) > 0 THEN fromTracking
  ELSE IF Len(detailsRoute) > 0 THEN detailsRoute
  ELSE calculated

\* getShipmentRouteCoordinates: tracking feed, then details feed, then calculation.
getShipmentRouteCoordinates(feed, detailsData, ship) ==
  firstRoute(trackingRoute(feed, ship),
             getShipmentRouteCoordinatesFromDetails(detailsData, ship.id),
             calculatedRoute(ship))

\* The milestones' locations that portPointsOf passes to getLocationCoordinates.
RECURSIVE locationsResolved(_, _)
locationsResolved(milestones, i) ==
  IF i > Len(milestones) THEN << >>
  ELSE (IF milestones[i].latitude # NULL /\ milestones[i].longitude # NULL
          THEN << >> ELSE << milestones[i].location[1] >>)
       \o locationsResolved(milestones, i + 1)

\* The arguments of the getLocationCoordinates calls that
\* getShipmentRouteCoordinates makes, in order.
resolvedBy(feed, detailsData, ship) ==
  IF Len(trackingRoute(feed, ship)) > 0 THEN << >>
  ELSE (IF detailsData = NULL \/ detailsData[1].id # ship.id THEN << >>
        ELSE locationsResolved(milestonesWithLocation(detailsData[1]), 1))
       \o (IF Len(getShipmentRouteCoordinatesFromDetails(detailsData, ship.id)) > 0
             THEN << >>
             ELSE << ship.origin, ship.destination >>)

\* The sources getShipmentRouteCoordinates reads, in order.
routeSourcesRead(feed, detailsData, ship) ==
  IF Len(trackingRoute(feed, ship)) > 0 THEN << "tracking" >>
  ELSE IF Len(getShipmentRouteCoordinatesFromDetails(detailsData, ship.id)) > 0
    THEN << "tracking", "details" >>
  ELSE << "tracking", "details", "calculated" >>

-----------------------------------------------------------------------------
(* The route effects of the two map views.                                  *)

\* 0.0001 degree, the de-duplication tolerance.
Tolerance == Deg \div 10000

\* Math.abs(p.lng - q.lng) < 0.0001 && Math.abs(p.lat - q.lat) < 0.0001
isDuplicate(p, q) ==
  /\ Abs(p.lng - q.lng) < Tolerance
  /\ Abs(p.lat - q.lat) < Tolerance

\* The forEach over remainingRoute: a point is appended unless it duplicates the
\* last point of the path built so far.
RECURSIVE appendRemaining(_, _, _)
appendRemaining(path, remainingRoute, i) ==
  IF i > Len(remainingRoute) THEN path
  ELSE IF Len(path) > 0 /\ isDuplicate(path[Len(path)], remainingRoute[i])
    THEN appendRemaining(path, remainingRoute, i + 1)
  ELSE appendRemaining(Append(path, remainingRoute[i]), remainingRoute, i + 1)

\* Variant of endAtDestination that leaves the path where the route ends.
endWhereRouteEnds(path, destination) == path

\* "Ensure it ends at destination port".
endAtDestination(path, destination) ==
  IF isDuplicate(path[Len(path)], destination) THEN path ELSE Append(path, destination)

\* Lines 296-299: a lone vessel position is joined to the destination.
lineToDestination(path, destination) ==
  IF Len(path) = 1 THEN Append(path, destination) ELSE path

\* MapboxView, lines 250-299: the upcoming route of a tracked shipment.
mapboxUpcoming(trackingData) ==
  lineToDestination(
    endAtDestination(
      appendRemaining(<< trackingData.currentPosition >>, trackingData.remainingRoute, 1),
      trackingData.ports.destination),
    trackingData.ports.destination)

\* MapView, lines 270-365: the remaining path of a tracked shipment.
googleUpcoming(trackingData) ==
  IF Len(trackingData.remainingRoute) > 0
    THEN endAtDestination(
           appendRemaining(<< trackingData.currentPosition >>,
                           trackingData.remainingRoute, 1),
           trackingData.ports.destination)
    ELSE << trackingData.currentPosition, trackingData.ports.destination >>

\* Variant of currentMilestoneIndex that puts a shipment in transit at the point
\* before the middle.
currentMilestoneIndexBeforeMiddle(status, n) ==
  IF status = "delivered" THEN n - 1
  ELSE IF status = "in_transit" THEN (n - 1) \div 2
  ELSE 0

\* The split index of the fallback route, from the shipment's status.
currentMilestoneIndex(status, n) ==
  IF status = "delivered" THEN n - 1
  ELSE IF status = "in_transit" THEN n \div 2
  ELSE 0

\* routePoints.map(({ coords: [lat, lng] }) => ...)
toPoints(routePoints) ==
  [ i \in 1..Len(routePoints) |->
      [lat |-> routePoints[i].coords[1], lng |-> routePoints[i].coords[2]] ]

\* The fallback route split at the index the status gives (slice(0, index + 1) and
\* slice(index), indices from 0 in the source and from 1 here); nothing with
\* fewer than 2 points.
splitRoute(points, status) ==
  IF Len(points) < 2
    THEN [ source |-> "none", completedPoints |-> << >>, upcomingPoints |-> << >>,
           vessel |-> NULL ]
    ELSE [ source |-> "fallback",
           completedPoints |->
             SubSeq(points, 1, currentMilestoneIndex(status, Len(points)) + 1),
           upcomingPoints |->
             SubSeq(points, currentMilestoneIndex(status, Len(points)) + 1, Len(points)),
           vessel |-> NULL ]

\* The fallback of both views.
fallbackModel(feed, detailsData, ship) ==
  splitRoute(toPoints(getShipmentRouteCoordinates(feed, detailsData, ship)), ship.status)

\* Variant of effectFor that prefers the details feed when it has the shipment.
effectForDetailsFirst(whichView, trackingData, feed, detailsData, ship) ==
  IF trackingData # NULL
     /\ Len(getShipmentRouteCoordinatesFromDetails(detailsData, ship.id)) = 0
    THEN [ source |-> "tracking",
           completedPoints |-> trackingData.completedRoute,
           upcomingPoints |-> IF whichView = "mapbox"
                                THEN mapboxUpcoming(trackingData)
                                ELSE googleUpcoming(trackingData),
           vessel |-> Some(trackingData.currentPosition) ]
    ELSE splitRoute(toPoints(firstRoute(
                      getShipmentRouteCoordinatesFromDetails(detailsData, ship.id),
                      trackingRoute(feed, ship), calculatedRoute(ship))),
                    ship.status)

\* The effect's result given what getShipmentTrackingForMap returned.
effectFor(whichView, trackingData, feed, detailsData, ship) ==
  IF trackingData # NULL
    THEN [ source |-> "tracking",
           completedPoints |-> trackingData.completedRoute,
           upcomingPoints |-> IF whichView = "mapbox"
                                THEN mapboxUpcoming(trackingData)
                                ELSE googleUpcoming(trackingData),
           vessel |-> Some(trackingData.currentPosition) ]
    ELSE fallbackModel(feed, detailsData, ship)

\* What a view's route effect computes for the active shipment.
routeEffect(whichView, feed, detailsData, ship) ==
  effectFor(whichView, getShipmentTrackingForMap(feed, ship), feed, detailsData, ship)

\* The feeds the effect reads, in order.
feedsRead(feed, detailsData, ship) ==
  IF getShipmentTrackingForMap(feed, ship) # NULL THEN << "tracking" >>
  ELSE << "tracking" >> \o routeSourcesRead(feed, detailsData, ship)

-----------------------------------------------------------------------------
(* Milestones of a shipment: transformMilestone and transformJsonShipment.  *)
(* A field that holds a Date or null holds Some(date) or NULL.              *)

\* date <= now; every comparison with an Invalid Date is false.
notLater(date, now) == date.valid /\ now.valid /\ date.time <= now.time

Unknown == <<"U","n","k","n","o","w","n">>

InTransit == <<"I","n"," ","T","r","a","n","s","i","t">>

\* a || b for strings: the empty string is falsy.
orElse(a, b) == IF a = << >> THEN b ELSE a

\* jsonMilestone.start_date !== null
hasDate(jsonMilestone) == jsonMilestone.start_date # NULL

\* m.start_date !== null && parseISO(m.start_date!) <= now
startedBy(m, now) == m.start_date # NULL /\ notLater(parseISO(m.start_date[1]), now)

\* The completedCount of transformMilestone: the records before index (counted
\* from 0) whose date is not later than now.
completedCount(allMilestones, index, now) ==
  Cardinality({ idx \in 0..(index - 1) : startedBy(allMilestones[idx + 1], now) })

\* The location of a milestone, derived from its type.
locationOf(jsonMilestone, origin, destination) ==
  IF jsonMilestone.milestone_type = 0 \/ jsonMilestone.milestone_type = 1 THEN origin
  ELSE IF jsonMilestone.milestone_type = 2 \/ jsonMilestone.milestone_type = 3
         THEN destination
  ELSE IF jsonMilestone.location = NULL THEN InTransit
  ELSE orElse(jsonMilestone.location[1], InTransit)

\* Variant of statusOf that takes a record without a date for completed.
statusOfUndatedCompleted(jsonMilestone, index, allMilestones, now) ==
  IF hasDate(jsonMilestone)
    THEN IF notLater(parseISO(jsonMilestone.start_date[1]), now) THEN "completed"
         ELSE IF completedCount(allMilestones, index, now) = index THEN "current"
         ELSE "upcoming"
    ELSE "completed"

\* The status of a milestone.
statusOf(jsonMilestone, index, allMilestones, now) ==
  IF hasDate(jsonMilestone)
    THEN IF notLater(parseISO(jsonMilestone.start_date[1]), now) THEN "completed"
         ELSE IF completedCount(allMilestones, index, now) = index THEN "current"
         ELSE "upcoming"
    ELSE IF completedCount(allMilestones, index, now) = index THEN "current"
         ELSE "upcoming"

\* The date of a milestone: the parsed start_date, or the time of the call.
dateOf(jsonMilestone, now) ==
  IF hasDate(jsonMilestone) THEN parseISO(jsonMilestone.start_date[1]) ELSE now

\* transformMilestone; index counts from 0 and now is what new Date() returns
\* during the call (its two reads of the clock are not compared with each other).
transformMilestone(jsonMilestone, index, allMilestones, origin, destination, now) ==
  [ id |-> << "milestone-", index >>,
    name |-> jsonMilestone.milestone_type_display,
    date |-> Some(dateOf(jsonMilestone, now)),
    location |-> locationOf(jsonMilestone, origin, destination),
    status |-> statusOf(jsonMilestone, index, allMilestones, now) ]

\* Variant of transformedMilestones that leaves out the records without a date.
transformedMilestonesDated(json, nows) ==
  LET dated == SelectSeq(json.shipment_milestones, hasDate)
  IN  [ i \in 1..Len(dated) |->
          transformMilestone(dated[i], i - 1, dated,
                             orElse(json.origin, Unknown),
                             orElse(json.destination, Unknown), nows[i]) ]

\* The milestones of transformJsonShipment: shipment_milestones.map(...), the
\* i-th call reading the clock at nows[i].
transformedMilestones(json, nows) ==
  [ i \in 1..Len(json.shipment_milestones) |->
      transformMilestone(json.shipment_milestones[i], i - 1, json.shipment_milestones,
                         orElse(json.origin, Unknown),
                         orElse(json.destination, Unknown), nows[i]) ]

-----------------------------------------------------------------------------
(* The shipment card: routeStops and progress.                              *)

empty == <<"e","m","p","t","y">>

departure == <<"d","e","p","a","r","t","u","r","e">>

arrival == <<"a","r","r","i","v","a","l">>

delivery == <<"d","e","l","i","v","e","r","y">>

\* The milestoneNames of the placeholders.
milestoneNames ==
  << <<"E","m","p","t","y"," ","t","o"," ","s","h","i","p","p","e","r">>,
     <<"D","e","p","a","r","t","u","r","e"," ","f","r","o","m"," ","f","i","r","s","t"," ","P","O","L">>,
     <<"A","r","r","i","v","a","l"," ","a","t"," ","f","i","n","a","l"," ","P","O","D">>,
     <<"D","e","l","i","v","e","r","y"," ","t","o"," ","c","o","n","s","i","g","n","e","e">> >>

\* The filter of routeStops: the name mentions one of the four core milestones.
isCore(m) ==
  LET name == toLowerCase(m.name)
  IN  includes(name, empty) \/ includes(name, departure)
        \/ includes(name, arrival) \/ includes(name, delivery)

getOrder(name) ==
  LET n == toLowerCase(name)
  IN  IF includes(n, empty) THEN 0
      ELSE IF includes(n, departure) THEN 1
      ELSE IF includes(n, arrival) THEN 2
      ELSE IF includes(n, delivery) THEN 3
      ELSE 99

\* The milestones of one order, in their order of arrival.
ofOrder(ms, order) == SelectSeq(ms, LAMBDA m : getOrder(m.name) = order)

\* .sort((a, b) => getOrder(a.name) - getOrder(b.name)) of the filtered
\* milestones: the sort is stable and the orders are 0 to 3.
sortByOrder(ms) == ofOrder(ms, 0) \o ofOrder(ms, 1) \o ofOrder(ms, 2) \o ofOrder(ms, 3)

coreMilestones(ms) == sortByOrder(SelectSeq(ms, isCore))

toStop(milestone) ==
  [ location |-> milestone.location, date |-> milestone.date,
    status |-> milestone.status, milestoneName |-> milestone.name ]

\* The stop pushed when stops.length is missingIndex.
placeholder(missingIndex, origin, destination) ==
  [ location |-> IF missingIndex < 2 THEN origin ELSE destination,
    date |-> NULL,
    status |-> "upcoming",
    milestoneName |-> milestoneNames[missingIndex + 1] ]

\* while (stops.length < 4) stops.push(...)
RECURSIVE padStops(_, _, _)
padStops(stops, origin, destination) ==
  IF Len(stops) < 4
    THEN padStops(Append(stops, placeholder(Len(stops), origin, destination)),
                  origin, destination)
    ELSE stops

\* stops.slice(0, 4)
firstFour(stops) == SubSeq(stops, 1, Min({4, Len(stops)}))

\* routeStops of a card for the milestones, origin and destination of its shipment.
stopsOf(ms, origin, destination) ==
  firstFour(padStops([i \in 1..Len(coreMilestones(ms)) |-> toStop(coreMilestones(ms)[i])],
                     origin, destination))

completedStops(stops) == Cardinality({ i \in 1..Len(stops) : stops[i].status = "completed" })

\* routeStops.findIndex((s) => s.status === 'current'), counted from 0.
currentStopIndex(stops) ==
  LET hits == { i \in 1..Len(stops) : stops[i].status = "current" }
  IN  IF hits = {} THEN -1 ELSE Min(hits) - 1

lastReachedIndex(stops) ==
  IF currentStopIndex(stops) >= 0 THEN currentStopIndex(stops)
  ELSE completedStops(stops) - 1

\* Variant of progressOf that takes the first stop for reached in every case.
progressOfAtLeastFirst(stops) ==
  IF Len(stops) > 0
    THEN ((Max({ lastReachedIndex(stops), 0 }) + 1) * 100) \div Len(stops)
    ELSE 0

\* Variant of progressOf that counts the stops up to the current one only.
progressOfBeforeCurrent(stops) ==
  IF Len(stops) > 0 /\ lastReachedIndex(stops) >= 0
    THEN (lastReachedIndex(stops) * 100) \div Len(stops)
    ELSE 0

\* progress: ((lastReachedIndex + 1) / routeStops.length) * 100, a multiple of 25
\* for the four stops of a card.
progressOf(stops) ==
  IF Len(stops) > 0 /\ lastReachedIndex(stops) >= 0
    THEN ((lastReachedIndex(stops) + 1) * 100) \div Len(stops)
    ELSE 0

-----------------------------------------------------------------------------
(* Inputs of the resolver.                                                  *)

LocationAlphabet == { "z", "Z", " " }

RECURSIVE StringsUpTo(_)
StringsUpTo(n) ==
  IF n = 0 THEN { << >> }
  ELSE LET shorter == StringsUpTo(n - 1)
       IN  shorter \cup { Append(s, c) : s \in shorter, c \in LocationAlphabet }

CuratedLocations ==
  { <<"S","h","a","n","g","h","a","i",","," ","C","h","i","n","a">>,
    <<" ","s","a","n","t","o","s"," ">>,
    <<"Q">>,
    <<"B","u","s","a","n",","," ","S","o","u","t","h"," ","K","o","r","e","a">>,
    <<"D","o","h","a">>,
    <<"L","a","h","o","r","e",","," ","P","a","k","i","s","t","a","n">>,
    <<"L","A","H","O","R","E",","," ","P","A","K","I","S","T","A","N">>,
    <<"J","e","d","d","a","h">>,
    <<"J","E","D","D","A","H">>,
    <<"C","o","l","o","m","b","o">>,
    <<"z","z","z","z">>,
    <<"Z","Z","Z","Z">>,
    <<" ","z","z","z","z">> }

LocationInputs == CuratedLocations \cup StringsUpTo(MaxLocationLen)

\* The strings resolved in between: another spelling of a probe, names of the two
\* tables and a name of neither.
OtherLocations ==
  { <<"Z","Z","Z","Z">>,
    <<" ","z","z","z","z">>,
    <<"Q">>,
    <<"B","u","s","a","n",","," ","S","o","u","t","h"," ","K","o","r","e","a">>,
    <<"L","a","h","o","r","e",","," ","P","a","k","i","s","t","a","n">> }

-----------------------------------------------------------------------------
(* Inputs of the fusion.                                                    *)

\* Longest completed_route / remaining_route enumerated.
MaxRouteLen == 2

JsonPoint(latDeg, lngDeg) == [latitude |-> latDeg * Deg, longitude |-> lngDeg * Deg]

\* Points the feed's routes are drawn from; the first two are equally far from
\* the raw position (0, 0) and the third is opposite to the raw position (8, -90).
RemainingPoints == { JsonPoint(0, 10), JsonPoint(10, 0), JsonPoint(-8, 90) }

\* The second one is also a point of the remaining routes.
CompletedPoints == { JsonPoint(0, -10), JsonPoint(0, 10) }

\* The destination port of the tracked shipment, half a tolerance east of the
\* route point (0, 10).
DestinationPort == [latitude |-> 0, longitude |-> 10 * Deg + Tolerance \div 2]

RawPositions == { JsonPoint(0, 0), JsonPoint(8, -90) }

RECURSIVE SeqsUpTo(_, _)
SeqsUpTo(S, n) ==
  IF n = 0 THEN { << >> }
  ELSE LET shorter == SeqsUpTo(S, n - 1)
       IN  shorter \cup { Append(s, x) : s \in shorter, x \in S }

TrackingStatuses ==
  { <<"i","n","_","t","r","a","n","s","i","t">>,
    <<"D","e","l","i","v","e","r","e","d">>,
    <<"C","L","O","S","E","D">> }

ShanghaiChina == <<"S","h","a","n","g","h","a","i",","," ","C","h","i","n","a">>

LosAngelesUSA == <<"L","o","s"," ","A","n","g","e","l","e","s",","," ","U","S","A">>

KarachiPakistan == <<"K","a","r","a","c","h","i",","," ","P","a","k","i","s","t","a","n">>

SaoPauloBrazil == <<"S","a","o"," ","P","a","u","l","o",","," ","B","r","a","z","i","l">>

LahorePakistan == <<"L","a","h","o","r","e",","," ","P","a","k","i","s","t","a","n">>

BusanSouthKorea == <<"B","u","s","a","n",","," ","S","o","u","t","h"," ","K","o","r","e","a">>

Jeddah == <<"J","e","d","d","a","h">>

\* The active shipments: S1, and two shipments the feeds know nothing of.
Shipments ==
  { [id |-> r.id, orderNumber |-> r.orderNumber, status |-> st,
     origin |-> r.origin, destination |-> r.destination] :
    st \in { "pending", "in_transit", "delivered" },
    r \in { [id |-> "S1", orderNumber |-> "ORD-1",
             origin |-> ShanghaiChina, destination |-> LosAngelesUSA],
            [id |-> "S3", orderNumber |-> "ORD-3",
             origin |-> SaoPauloBrazil, destination |-> Jeddah],
            [id |-> "S4", orderNumber |-> "ORD-4",
             origin |-> LahorePakistan, destination |-> BusanSouthKorea] } }

TrackingRecords(id) ==
  { [ shipment_id |-> id, shipment_order_number |-> "ORD-1",
      shipment_status |-> st,
      route_info |-> [ origin |-> [coordinates |-> JsonPoint(0, -11)],
                       destination |-> [coordinates |-> DestinationPort] ],
      route_coordinates |-> [completed_route |-> done, remaining_route |-> todo],
      current_position |-> raw ] :
    st \in TrackingStatuses,
    done \in SeqsUpTo(CompletedPoints, MaxRouteLen),
    todo \in SeqsUpTo(RemainingPoints, MaxRouteLen),
    raw \in RawPositions }

\* A record of another shipment: the feed has nothing on S1.
OtherRecord ==
  [ shipment_id |-> "S2", shipment_order_number |-> "ORD-2",
    shipment_status |-> <<"i","n","_","t","r","a","n","s","i","t">>,
    route_info |-> [ origin |-> [coordinates |-> JsonPoint(0, -11)],
                     destination |-> [coordinates |-> JsonPoint(0, 12)] ],
    route_coordinates |-> [ completed_route |-> << JsonPoint(1, 1) >>,
                            remaining_route |-> << JsonPoint(2, 2) >> ],
    current_position |-> JsonPoint(1, 1) ]

\* The start dates of the details feed.
EarlyDate == <<"2","0","2","4","-","0","1","-","1","0">>

LateDate == <<"2","0","2","4","-","0","3","-","0","1">>

\* data/shipmentDetails.json for shipment id: an undated milestone located by name,
\* a dated one without location, and a dated one with explicit coordinates.
DetailsRecord(id) ==
  [ id |-> id,
    shipment_milestones |->
      << [ location |-> Some(LosAngelesUSA), start_date |-> NULL,
           latitude |-> NULL, longitude |-> NULL ],
         [ location |-> NULL, start_date |-> Some(EarlyDate),
           latitude |-> NULL, longitude |-> NULL ],
         [ location |-> Some(KarachiPakistan), start_date |-> Some(LateDate),
           latitude |-> Some(24 * Deg), longitude |-> Some(67 * Deg) ] >> ]

\* data/shipmentDetails.json for shipment id with four located milestones: the
\* later date first, the undated ones between and after the dated ones.
VoyageRecord(id) ==
  [ id |-> id,
    shipment_milestones |->
      << [ location |-> Some(BusanSouthKorea), start_date |-> Some(LateDate),
           latitude |-> NULL, longitude |-> NULL ],
         [ location |-> Some(LosAngelesUSA), start_date |-> NULL,
           latitude |-> NULL, longitude |-> NULL ],
         [ location |-> Some(KarachiPakistan), start_date |-> Some(EarlyDate),
           latitude |-> Some(24 * Deg), longitude |-> Some(67 * Deg) ],
         [ location |-> Some(ShanghaiChina), start_date |-> NULL,
           latitude |-> Some(31 * Deg), longitude |-> Some(122 * Deg) ] >> ]

\* data/shipmentDetails.json for shipment id with a single located milestone.
SingleStopRecord(id) ==
  [ id |-> id,
    shipment_milestones |->
      << [ location |-> NULL, start_date |-> Some(EarlyDate),
           latitude |-> NULL, longitude |-> NULL ],
         [ location |-> Some(KarachiPakistan), start_date |-> Some(LateDate),
           latitude |-> Some(24 * Deg), longitude |-> Some(67 * Deg) ] >> ]

DetailsFeeds ==
  { NULL, Some(DetailsRecord("S1")), Some(DetailsRecord("S2")), Some(SingleStopRecord("S1")),
    Some(VoyageRecord("S4")) }

Views == { "mapbox", "google" }

-----------------------------------------------------------------------------
(* Specification of the resolver: calls of getLocationCoordinates.          *)

\* The values the variables of the other components hold while unused.
IdleSynth == point1 = NULL /\ point2 = NULL /\ waypoints = NULL

IdleFusion ==
  /\ shipment = NULL /\ shipmentTrackingData = NULL /\ shipmentDetailsData = NULL
  /\ view = "none" /\ routeModel = NULL /\ consulted = NULL

IdleResolver ==
  /\ location = NULL /\ coords = NULL /\ tier = "none"
  /\ probe = NULL /\ other = NULL /\ probeCoords = NULL

IdleCard ==
  /\ jsonShipment = NULL /\ clock = NULL /\ cardMilestones = NULL
  /\ routeStops = NULL /\ progress = NULL

IdleMap ==
  /\ expandedId = NULL /\ activeId = NULL /\ currentPage = NULL
  /\ activeShipment = NULL /\ layers = NULL /\ renderPending = NULL

IdlePage ==
  /\ shipments = NULL /\ filters = NULL /\ loading = NULL /\ error = NULL
  /\ requests = NULL

InitResolver ==
  /\ LOCATION_COORDINATES = LOCATION_COORDINATES_INITIAL
  /\ roundsAboveOne \in BOOLEAN
  /\ op = "load"
  /\ probe \in LocationInputs
  /\ other \in OtherLocations
  /\ location = NULL /\ coords = NULL /\ tier = "none" /\ probeCoords = NULL
  /\ IdleSynth
  /\ IdleFusion
  /\ IdleCard
  /\ IdleMap
  /\ IdlePage

\* getLocationCoordinates(probe); the first result is remembered.
ResolveProbe ==
  /\ location' = probe
  /\ coords' = getLocationCoordinates(probe)
  /\ tier' = matchOf(probe).tier
  /\ probeCoords' = IF tier = "none" THEN getLocationCoordinates(probe) ELSE probeCoords
  /\ op' = "resolve"
  /\ UNCHANGED << cardVars, mapVars, pageVars, LOCATION_COORDINATES, roundsAboveOne, probe, other, synthVars, fusionVars >>

\* getLocationCoordinates(other), at any time.
ResolveOther ==
  /\ location' = other
  /\ coords' = getLocationCoordinates(other)
  /\ tier' = matchOf(other).tier
  /\ op' = "resolve"
  /\ UNCHANGED << cardVars, mapVars, pageVars, LOCATION_COORDINATES, roundsAboveOne, probe, other, probeCoords, synthVars,
                  fusionVars >>

\* The shipments whose routes are computed between resolutions.
RouteShipments ==
  { [id |-> "S1", orderNumber |-> "ORD-1", status |-> "in_transit",
     origin |-> ShanghaiChina, destination |-> LosAngelesUSA],
    [id |-> "S3", orderNumber |-> "ORD-3", status |-> "pending",
     origin |-> KarachiPakistan, destination |-> <<"J","e","d","d","a","h">>] }

\* The two feeds as this specification loads them: the tracking feed has no record
\* of these shipments, the details feed is S1's.
LoadedTracking == << OtherRecord >>

LoadedDetails == Some(DetailsRecord("S1"))

\* getShipmentRouteCoordinates(ship), with the feeds as loaded.  The resolver's
\* latest call is the last one the computation made, if it made any.
ComputeRoute ==
  /\ \E ship \in RouteShipments :
       /\ shipment' = ship
       /\ routeModel' = getShipmentRouteCoordinates(LoadedTracking, LoadedDetails, ship)
       /\ LET calls == resolvedBy(LoadedTracking, LoadedDetails, ship)
          IN  IF Len(calls) = 0
                THEN UNCHANGED << location, coords, tier >>
                ELSE /\ location' = calls[Len(calls)]
                     /\ coords' = getLocationCoordinates(calls[Len(calls)])
                     /\ tier' = matchOf(calls[Len(calls)]).tier
  /\ op' = "route"
  /\ UNCHANGED << cardVars, mapVars, pageVars, LOCATION_COORDINATES, roundsAboveOne, probe, other, probeCoords, synthVars,
                  shipmentTrackingData, shipmentDetailsData, view, consulted >>

NextResolver == ResolveProbe \/ ResolveOther \/ ComputeRoute

SpecResolver == InitResolver /\ [][NextResolver]_vars

-----------------------------------------------------------------------------
(* Specification of the fusion: one run of a view's route effect.           *)

InitFusion ==
  /\ LOCATION_COORDINATES = LOCATION_COORDINATES_INITIAL
  /\ roundsAboveOne \in BOOLEAN
  /\ op = "load"
  /\ IdleResolver
  /\ IdleSynth
  /\ \/ /\ shipment \in { s \in Shipments : s.id = "S1" /\ s.status = "in_transit" }
        /\ shipmentTrackingData \in { << OtherRecord, r >> : r \in TrackingRecords("S1") }
     \/ /\ shipment \in Shipments
        /\ shipmentTrackingData = << OtherRecord >>
  /\ shipmentDetailsData \in DetailsFeeds
  /\ view = "none" /\ routeModel = NULL /\ consulted = NULL
  /\ IdleCard
  /\ IdleMap
  /\ IdlePage

\* The route effect of a view runs for the active shipment.
RouteEffect ==
  /\ op = "load"
  /\ \E v \in Views :
       /\ view' = v
       /\ routeModel' = routeEffect(v, shipmentTrackingData, shipmentDetailsData, shipment)
  /\ consulted' = feedsRead(shipmentTrackingData, shipmentDetailsData, shipment)
  /\ op' = "route"
  /\ UNCHANGED << cardVars, mapVars, pageVars, LOCATION_COORDINATES, roundsAboveOne, resolverVars, synthVars,
                  shipment, shipmentTrackingData, shipmentDetailsData >>

NextFusion == RouteEffect

SpecFusion == InitFusion /\ [][NextFusion]_vars

-----------------------------------------------------------------------------
(* Specification of the synthesizer: one call of calculateSeaWaypoints.     *)

\* The grid of endpoints reaches MaxGrid steps from (0, 0) in each direction.
MaxGrid == 2

GridLatStep == 30 * Deg

GridLngStep == 40 * Deg

\* Endpoints just below and just above 2000 km and 5000 km from (0, 0), two ports
\* of the tables, and two points opposite each other.
SynthProbes ==
  { << 0, 1798000 >>, << 0, 1799000 >>, << 0, 4496000 >>, << 0, 4497000 >>,
    << 3123040, 12147370 >>, << 3374050, -11827200 >>,
    << 8 * Deg, -90 * Deg >>, << -8 * Deg, 90 * Deg >> }

SynthPoints ==
  SynthProbes \cup
  { << i * GridLatStep, j * GridLngStep >> : i \in -MaxGrid..MaxGrid, j \in -MaxGrid..MaxGrid }

InitSynth ==
  /\ LOCATION_COORDINATES = LOCATION_COORDINATES_INITIAL
  /\ roundsAboveOne \in BOOLEAN
  /\ op = "load"
  /\ IdleResolver
  /\ IdleFusion
  /\ point1 \in SynthPoints
  /\ point2 \in SynthPoints
  /\ waypoints = NULL
  /\ IdleCard
  /\ IdleMap
  /\ IdlePage

Synthesize ==
  /\ op = "load"
  /\ waypoints' = calculateSeaWaypoints(point1, point2)
  /\ op' = "synthesize"
  /\ UNCHANGED << cardVars, mapVars, pageVars, LOCATION_COORDINATES, roundsAboveOne, resolverVars, fusionVars,
                  point1, point2 >>

NextSynth == Synthesize

SpecSynth == InitSynth /\ [][NextSynth]_vars

-----------------------------------------------------------------------------
(* Specification of the shipment card: a record of the list is transformed  *)
(* and a card shows it.                                                     *)

\* Longest shipment_milestones enumerated.
MaxMilestones == 4

\* A date that exists and one that does not.
FirstDate == <<"2","0","2","4","-","0","1","-","1","5">>

NoSuchDate == <<"2","0","2","4","-","0","2","-","3","0">>

StartDates == { NULL, Some(FirstDate), Some(NoSuchDate) }

\* The clock reads the day before FirstDate or that day.
Instants == { parseISO(FirstDate).time - 1, parseISO(FirstDate).time }

\* milestone_type_display of the types 0 to 3, and of another type.
typeDisplay(type) ==
  IF type \in 0..3 THEN milestoneNames[type + 1] ELSE <<"C","u","s","t","o","m","s"," ","c","l","e","a","r","a","n","c","e">>

JsonMilestone(type, start) ==
  [ milestone_type_display |-> typeDisplay(type), milestone_type |-> type,
    start_date |-> start, location |-> NULL ]

\* The milestone types of the lists enumerated: complete, incomplete, out of
\* order, with another type in between, with a type twice.
TypeLists ==
  { l \in { << >>, << 0 >>, << 0, 2 >>, << 3, 0 >>, << 0, 4, 3 >>, << 0, 1, 2, 3 >>,
            << 0, 1, 2, 2, 3 >>, << 0, 1, 4, 2, 3 >> } : Len(l) <= MaxMilestones }

JsonShipments ==
  UNION { { [ id |-> "S1", origin |-> from, destination |-> LosAngelesUSA,
              shipment_milestones |->
                [i \in 1..Len(types) |-> JsonMilestone(types[i], starts[i])] ] :
            starts \in [1..Len(types) -> StartDates], from \in { ShanghaiChina, << >> } } :
          types \in TypeLists }

\* What n successive reads of the clock may return.
ClockReads(n) ==
  { [i \in 1..n |-> DateAt(c[i])] :
      c \in { d \in [1..n -> Instants] : \A i, j \in 1..n : i < j => d[i] <= d[j] } }

InitCard ==
  /\ LOCATION_COORDINATES = LOCATION_COORDINATES_INITIAL
  /\ roundsAboveOne = FALSE
  /\ op = "load"
  /\ IdleResolver
  /\ IdleSynth
  /\ IdleFusion
  /\ jsonShipment \in JsonShipments
  /\ clock = NULL /\ cardMilestones = NULL /\ routeStops = NULL /\ progress = NULL
  /\ IdleMap
  /\ IdlePage

\* transformJsonShipment(jsonShipment): one call of transformMilestone for each
\* record, each reading the clock.
TransformJsonShipment ==
  /\ op = "load"
  /\ \E nows \in ClockReads(Len(jsonShipment.shipment_milestones)) :
       /\ clock' = nows
       /\ cardMilestones' = transformedMilestones(jsonShipment, nows)
  /\ op' = "transform"
  /\ UNCHANGED << mapVars, pageVars, LOCATION_COORDINATES, roundsAboveOne, resolverVars, synthVars,
                  fusionVars, jsonShipment, routeStops, progress >>

\* A ShipmentCard renders the transformed shipment.
RenderCard ==
  /\ op = "transform"
  /\ routeStops' = stopsOf(cardMilestones, jsonShipment.origin, jsonShipment.destination)
  /\ progress' = progressOf(stopsOf(cardMilestones, jsonShipment.origin,
                                    jsonShipment.destination))
  /\ op' = "card"
  /\ UNCHANGED << mapVars, pageVars, LOCATION_COORDINATES, roundsAboveOne, resolverVars, synthVars,
                  fusionVars, jsonShipment, clock, cardMilestones >>

NextCard == TransformJsonShipment \/ RenderCard

SpecCard == InitCard /\ [][NextCard]_vars

-----------------------------------------------------------------------------
(* Properties of the fusion (SpecFusion).                                   *)

\* The feed's record of the active shipment, as an optional value.
trackedRecord == getShipmentTrackingData(shipmentTrackingData, shipmentKey(shipment))

\* The route effect ran for a shipment the tracking feed has a record of.
Tracked == op = "route" /\ trackedRecord # NULL

\* The details feed is the active shipment's.
DetailsAvailable == shipmentDetailsData # NULL /\ shipmentDetailsData[1].id = shipment.id

Range(seq) == { seq[i] : i \in 1..Len(seq) }

\* Every point of the feed's record of the active shipment.
trackedPoints ==
  LET r == trackedRecord[1]
  IN  Range(mapLatLng(r.route_coordinates.completed_route))
      \cup Range(mapLatLng(r.route_coordinates.remaining_route))
      \cup { toLatLng(r.current_position),
             toLatLng(r.route_info.origin.coordinates),
             toLatLng(r.route_info.destination.coordinates) }

\* Every point of the route model.
modelPoints ==
  Range(routeModel.completedPoints) \cup Range(routeModel.upcomingPoints)
  \cup Range(routeModel.vessel)

\* C1: when the tracking feed and the details feed both have the shipment, the
\* route model is the one the tracking feed alone gives (the one computed without
\* a details feed), only the tracking feed is read, and every point of the model
\* is a point of the tracking record.
C1_TrackingFeedAlone ==
  (Tracked /\ DetailsAvailable) =>
    /\ routeModel = routeEffect(view, shipmentTrackingData, NULL, shipment)
    /\ consulted = << "tracking" >>
    /\ modelPoints \subseteq trackedPoints

\* Both feeds have the shipment, the details feed would give a route, and the
\* model drawn is the tracking feed's.
C1_Witness ==
  /\ Tracked
  /\ DetailsAvailable
  /\ Len(getShipmentRouteCoordinatesFromDetails(shipmentDetailsData, shipment.id)) > 0
  /\ routeModel.source = "tracking"
  /\ Len(routeModel.completedPoints) > 0
  /\ Len(routeModel.upcomingPoints) > 2

completedOfRecord == mapLatLng(trackedRecord[1].route_coordinates.completed_route)

remainingOfRecord == mapLatLng(trackedRecord[1].route_coordinates.remaining_route)

rawPosition == toLatLng(trackedRecord[1].current_position)

\* The feed's status is delivered or closed, whatever its case.
DeliveredOrClosed ==
  toLowerCase(trackedRecord[1].shipment_status) \in { delivered, closed }

\* C2: with an empty completedRoute and a non-empty remainingRoute the vessel is at
\* remainingRoute[0], whatever the raw current_position.
C2_SnapsToFirstRemaining ==
  (Tracked /\ Len(completedOfRecord) = 0 /\ Len(remainingOfRecord) > 0) =>
    routeModel.vessel = Some(remainingOfRecord[1])

\* A ship at its origin whose raw position is nearer to a later point of the
\* remaining route than to the first one.
C2_Witness ==
  /\ Tracked
  /\ Len(completedOfRecord) = 0
  /\ Len(remainingOfRecord) = 2
  /\ remainingOfRecord[1] = [lat |-> -8 * Deg, lng |-> 90 * Deg]
  /\ remainingOfRecord[2] = [lat |-> 0, lng |-> 10 * Deg]
  /\ rawPosition = [lat |-> 0, lng |-> 0]
  /\ routeModel.vessel = Some(remainingOfRecord[1])

\* C3: with a non-empty completedRoute, an empty remainingRoute or a status of
\* delivered or closed (in any case) puts the vessel at the last point of
\* completedRoute, whatever the raw position.
C3_SnapsToLastCompleted ==
  (Tracked /\ Len(completedOfRecord) > 0
           /\ (Len(remainingOfRecord) = 0 \/ DeliveredOrClosed)) =>
    routeModel.vessel = Some(completedOfRecord[Len(completedOfRecord)])

\* A status spelt "Delivered" with both routes non-empty: the vessel is at the last
\* completed point.
C3_Witness ==
  /\ Tracked
  /\ Len(completedOfRecord) = 2
  /\ Len(remainingOfRecord) > 0
  /\ trackedRecord[1].shipment_status = <<"D","e","l","i","v","e","r","e","d">>
  /\ routeModel.vessel = Some(completedOfRecord[2])
  /\ completedOfRecord[2] # completedOfRecord[1]

\* The great-circle (haversine) distance of the raw position to remainingRoute[i],
\* in metres.
distanceToRemaining(i) ==
  Metres(CentralAngle(
    RoundedTerm(haversineTerm(rawPosition.lat, rawPosition.lng,
                              remainingOfRecord[i].lat, remainingOfRecord[i].lng),
                FALSE)))

-----------------------------------------------------------------------------
(* Properties of the resolver (SpecResolver).                               *)

\* C5: getLocationCoordinates returns a pair of numbers, never null, for every
\* string, the empty one and those matching no table included.
C5_ResolverTotal ==
  op = "resolve" =>
    /\ coords # NULL
    /\ Len(coords) = 2
    /\ coords[1] \in Int
    /\ coords[2] \in Int

\* A string of blanks only, and a string that no table matches, have been resolved.
C5_Witness ==
  /\ op = "resolve"
  /\ probeCoords # NULL
  /\ Len(probe) > 0
  /\ trim(probe) = << >>
  /\ location = other
  /\ tier = "hash"
  /\ Len(coords) = 2

\* C6: the coordinates of the hash fallback have a latitude in [-60, 60) and a
\* longitude in [-170, 170).
C6_HashRange ==
  (op = "resolve" /\ tier = "hash") =>
    /\ -60 * Deg <= coords[1] /\ coords[1] < 60 * Deg
    /\ -170 * Deg <= coords[2] /\ coords[2] < 170 * Deg

normalizedOf(loc) == trim(toUpperCase(loc))

\* C8: two strings with the same normalized form resolve to the same coordinates,
\* in every tier.
C8_NormalizedFormDecides ==
  (op = "resolve" /\ probeCoords # NULL /\ normalizedOf(location) = normalizedOf(probe)) =>
    coords = probeCoords

\* C9: the hash fallback is used only when the trailing comma-delimited segment
\* matches no entry of the country-center table; otherwise the result is that
\* country's center.
C9_CountryCenterBeforeHash ==
  (op = "resolve" /\ tier = "hash") =>
    getCountryCenterCoordinates(extractCountry(location)) = NULL

-----------------------------------------------------------------------------
(* Properties of the synthesizer (SpecSynth).                               *)

\* The great-circle (haversine, radius 6371 km) distance of the endpoints, in metres.
greatCircleDistance == Metres(CentralAngle(RoundedTerm(seaTerm(point1, point2), FALSE)))

\* x has the sign of y.
SameSign(x, y) ==
  /\ y > 0 => x > 0
  /\ y < 0 => x < 0
  /\ y = 0 => x = 0

\* The two waypoints follow each other in the direction from point1 to point2.
InOrder ==
  /\ SameSign(waypoints[2][1] - waypoints[1][1], point2[1] - point1[1])
  /\ SameSign(waypoints[2][2] - waypoints[1][2], point2[2] - point1[2])

\* C10: calculateSeaWaypoints returns no waypoint up to 2000 km, one above 2000 km
\* and up to 5000 km, and two above 5000 km, these in order from point1 to point2.
C10_WaypointCount ==
  op = "synthesize" =>
    /\ greatCircleDistance <= 2000 * 1000 => Len(waypoints) = 0
    /\ (2000 * 1000 < greatCircleDistance /\ greatCircleDistance <= 5000 * 1000)
         => Len(waypoints) = 1
    /\ greatCircleDistance > 5000 * 1000 => (Len(waypoints) = 2 /\ InOrder)

-----------------------------------------------------------------------------
(* Properties of the shipment card (SpecCard).                              *)

\* The records of the shipment, as the list gives them.
rawMilestones == jsonShipment.shipment_milestones

\* transformJsonShipment has returned.
Transformed == op \in { "transform", "card" }

\* C11: the transformed shipment has as many milestones as the record has raw
\* milestones, and the i-th milestone is made from the i-th raw record: it has
\* that record's name, its position as id and the location of that record's type.
C11_OrderKeptNothingDropped ==
  Transformed =>
    /\ Len(cardMilestones) = Len(rawMilestones)
    /\ \A i \in 1..Len(rawMilestones) :
         /\ cardMilestones[i].name = rawMilestones[i].milestone_type_display
         /\ cardMilestones[i].id = << "milestone-", i - 1 >>
         /\ rawMilestones[i].milestone_type \in {0, 1} =>
              cardMilestones[i].location = orElse(jsonShipment.origin, Unknown)
         /\ rawMilestones[i].milestone_type \in {2, 3} =>
              cardMilestones[i].location = orElse(jsonShipment.destination, Unknown)

\* A list out of order with a record without a date and one with a date that does
\* not exist has been transformed.
C11_Witness ==
  /\ op = "transform"
  /\ Len(rawMilestones) >= 2
  /\ rawMilestones[1].milestone_type > rawMilestones[2].milestone_type
  /\ rawMilestones[1].start_date = NULL
  /\ rawMilestones[2].start_date = Some(NoSuchDate)
  /\ Len(cardMilestones) = 2

\* The i-th raw record has a date that exists and is not later than the time at
\* which the i-th call of transformMilestone read the clock.
datePassed(i) ==
  /\ rawMilestones[i].start_date # NULL
  /\ parseISO(rawMilestones[i].start_date[1]).valid
  /\ parseISO(rawMilestones[i].start_date[1]).time <= clock[i].time

\* C12: a milestone is completed exactly when its raw record has a date and that
\* date is not later than now; a milestone whose raw date is null is not completed.
C12_CompletedIffDatePassed ==
  Transformed =>
    \A i \in 1..Len(rawMilestones) :
      /\ (cardMilestones[i].status = "completed") <=> datePassed(i)
      /\ rawMilestones[i].start_date = NULL => cardMilestones[i].status # "completed"

\* A completed milestone, one whose date is still to come, one without a date and
\* one whose date does not exist have been transformed together.
C12_Witness ==
  /\ op = "transform"
  /\ \E i, j, k, l \in 1..Len(rawMilestones) :
       /\ cardMilestones[i].status = "completed"
       /\ rawMilestones[j].start_date = Some(FirstDate)
       /\ clock[j].time < parseISO(FirstDate).time
       /\ cardMilestones[j].status # "completed"
       /\ rawMilestones[k].start_date = NULL
       /\ rawMilestones[l].start_date = Some(NoSuchDate)

\* Every milestone before the i-th is completed.
predecessorsCompleted(i) == \A j \in 1..(i - 1) : cardMilestones[j].status = "completed"

\* The completed milestones before the i-th.
completedBefore(i) ==
  Cardinality({ j \in 1..(i - 1) : cardMilestones[j].status = "completed" })

\* C13: a milestone that is not completed is current exactly when the number of
\* completed milestones before it equals its index, that is when every milestone
\* before it is completed, and is upcoming otherwise.
C13_CurrentIffPredecessorsCompleted ==
  Transformed =>
    \A i \in 1..Len(rawMilestones) :
      cardMilestones[i].status # "completed" =>
        /\ (cardMilestones[i].status = "current") <=> (completedBefore(i) = i - 1)
        /\ (cardMilestones[i].status = "current") <=> predecessorsCompleted(i)
        /\ cardMilestones[i].status \in { "current", "upcoming" }

\* The positions of the milestones that are current.
currentOnes == { i \in 1..Len(cardMilestones) : cardMilestones[i].status = "current" }

\* The positions of the milestones that are not completed.
notCompleted == { i \in 1..Len(cardMilestones) : cardMilestones[i].status # "completed" }

\* C14: at most one milestone of a transformed shipment is current, and a current
\* milestone is the first milestone that is not completed.
C14_AtMostOneCurrent ==
  Transformed =>
    /\ Cardinality(currentOnes) <= 1
    /\ \A i \in currentOnes : i = Min(notCompleted)

\* The i-th raw record has no date, or a date string that is no date.
withoutDate(i) ==
  \/ rawMilestones[i].start_date = NULL
  \/ ~ parseISO(rawMilestones[i].start_date[1]).valid

\* C15: a raw milestone whose date is absent or malformed is in the output with
\* date = null and with status current or upcoming.
C15_NoDateGivesNullDate ==
  Transformed =>
    /\ Len(cardMilestones) = Len(rawMilestones)
    /\ \A i \in 1..Len(rawMilestones) :
         withoutDate(i) =>
           /\ cardMilestones[i].date = NULL
           /\ cardMilestones[i].status \in { "current", "upcoming" }

\* The card has been rendered.
Rendered == op = "card"

\* The raw records of milestone type k.
ofType(k) == { i \in 1..Len(rawMilestones) : rawMilestones[i].milestone_type = k }

\* Stop k (counted from 0) is a milestone of type k of the shipment, or a
\* placeholder when the shipment has none.
canonicalStop(k) ==
  IF ofType(k) # {}
    THEN \E i \in ofType(k) : routeStops[k + 1] = toStop(cardMilestones[i])
    ELSE /\ routeStops[k + 1].status = "upcoming"
         /\ routeStops[k + 1].date = NULL
         /\ routeStops[k + 1].location =
              (IF k < 2 THEN jsonShipment.origin ELSE jsonShipment.destination)

\* C16: a card has exactly 4 stops, the stops of the types 0 to 3 in that order
\* (Empty to shipper, Departure, Arrival, Delivery): the shipment's milestone of
\* the type when it has one, otherwise an upcoming placeholder without date, at
\* the origin for the first two stops and at the destination for the last two.
C16_FourCanonicalStops ==
  Rendered =>
    /\ Len(routeStops) = 4
    /\ \A k \in 0..3 : canonicalStop(k)

\* The statuses of the stops of the card.
stopStatuses == [i \in 1..Len(routeStops) |-> routeStops[i].status]

\* The index, counted from 0, of the last stop reached: the current stop if there
\* is one, otherwise the last of as many stops as are completed.
reachedIndex ==
  IF \E i \in 1..Len(routeStops) : stopStatuses[i] = "current"
    THEN Min({ i \in 1..Len(routeStops) : stopStatuses[i] = "current" }) - 1
    ELSE Cardinality({ i \in 1..Len(routeStops) : stopStatuses[i] = "completed" }) - 1

ScenarioD == stopStatuses = << "completed", "current", "upcoming", "upcoming" >>

nothingReached ==
  \A i \in 1..Len(routeStops) : stopStatuses[i] \notin { "completed", "current" }

C19_FullWhenLastCompleted ==
  (Rendered /\ stopStatuses[Len(routeStops)] = "completed") => progress = 100

-----------------------------------------------------------------------------
(* Failure semantics of the route effect (SpecFusion).                      *)

\* The effect drew nothing: no completed segment, no upcoming segment, no vessel.
nothingToDraw ==
  /\ routeModel.completedPoints = << >>
  /\ routeModel.upcomingPoints = << >>
  /\ routeModel.vessel = NULL

\* None of the three sources has 2 points or more for the active shipment.
noSourceYields ==
  /\ Len(trackingRoute(shipmentTrackingData, shipment)) < 2
  /\ Len(getShipmentRouteCoordinatesFromDetails(shipmentDetailsData, shipment.id)) < 2
  /\ Len(calculatedRoute(shipment)) < 2

\* C20: the route effect ends with nothing to draw exactly when none of the three
\* sources yields 2 points or more; a source with fewer than 2 points does not
\* keep a later source with 2 or more from supplying the route.
C20_EmptyOnlyWithoutSource ==
  op = "route" => (nothingToDraw <=> noSourceYields)

-----------------------------------------------------------------------------
(* Properties of the upcoming polyline of a tracked shipment (SpecFusion).  *)

\* The upcoming path the effect built from the tracking feed.
upcoming == routeModel.upcomingPoints

\* The effect ran for a tracked shipment and drew the upcoming polyline: both
\* views draw it when it has more than one point.
upcomingDrawn ==
  op = "route" /\ routeModel.source = "tracking" /\ Len(upcoming) > 1

\* The destination port of the feed's record.
destinationPort == toLatLng(trackedRecord[1].route_info.destination.coordinates)

\* Within 0.0001 degree in latitude and in longitude.
withinTolerance(p, q) == Abs(p.lat - q.lat) < Tolerance /\ Abs(p.lng - q.lng) < Tolerance

\* C21: an upcoming polyline that is drawn starts at the snapped vessel position
\* and ends at the destination port or within 0.0001 degree of it.
C21_UpcomingEndpoints ==
  upcomingDrawn =>
    /\ upcoming[1] = routeModel.vessel[1]
    /\ \/ upcoming[Len(upcoming)] = destinationPort
       \/ withinTolerance(upcoming[Len(upcoming)], destinationPort)

\* A polyline of three points or more was drawn that ends at a route point near
\* the destination port, not at the port.
C21_Witness ==
  /\ upcomingDrawn
  /\ Len(upcoming) >= 3
  /\ upcoming[Len(upcoming)] # destinationPort

\* C22: in an upcoming polyline built from the tracking feed, with or without
\* remaining route, no two consecutive points are within 0.0001 degree of each
\* other in latitude and in longitude.
C22_NoConsecutiveDuplicates ==
  upcomingDrawn =>
    \A i \in 1..(Len(upcoming) - 1) : ~ withinTolerance(upcoming[i], upcoming[i + 1])

-----------------------------------------------------------------------------
(* Properties of the fallback routes (SpecFusion).                          *)

\* The effect ran for a shipment without a record in the tracking feed.
Untracked == op = "route" /\ trackedRecord = NULL

\* The route the fallback drew, as [lat, lng] pairs: the completed segment and,
\* after the point the two segments share, the upcoming one.
fallbackRoute ==
  [ i \in 1..Len(routeModel.completedPoints) |->
      << routeModel.completedPoints[i].lat, routeModel.completedPoints[i].lng >> ]
  \o [ i \in 1..(Len(routeModel.upcomingPoints) - 1) |->
         << routeModel.upcomingPoints[i + 1].lat, routeModel.upcomingPoints[i + 1].lng >> ]

\* At least half a degree apart, in latitude or in longitude.
halfDegreeAway(p, q) == 2 * Abs(p[1] - q[1]) >= Deg \/ 2 * Abs(p[2] - q[2]) >= Deg

\* The coastal point of a side: the port of its country, or the coordinate itself.
coastalOf(loc, isOrigin) ==
  IF getCoastalPoint(extractCountry(loc), isOrigin) # NULL
    THEN getCoastalPoint(extractCountry(loc), isOrigin)
    ELSE getLocationCoordinates(loc)

\* origin, coastal points where they are away, the waypoints between the coastal
\* points, destination.
routeThrough(o, d, co, cd) ==
  << o >> \o (IF halfDegreeAway(co, o) THEN << co >> ELSE << >>)
          \o calculateSeaWaypoints(co, cd)
          \o (IF halfDegreeAway(cd, d) THEN << cd >> ELSE << >>)
          \o << d >>

\* Neither feed has the active shipment.
NoFeed == Untracked /\ ~ DetailsAvailable

\* C23: without tracking feed and details feed the route is origin, the origin
\* coastal point if at least 0.5 degree from the origin, the sea waypoints between
\* the two coastal points, the destination coastal point if at least 0.5 degree
\* from the destination, destination; it starts at the resolved origin and ends
\* at the resolved destination.
C23_CalculatedRoute ==
  NoFeed =>
    /\ fallbackRoute = routeThrough(getLocationCoordinates(shipment.origin),
                                    getLocationCoordinates(shipment.destination),
                                    coastalOf(shipment.origin, TRUE),
                                    coastalOf(shipment.destination, FALSE))
    /\ fallbackRoute[1] = getLocationCoordinates(shipment.origin)
    /\ fallbackRoute[Len(fallbackRoute)] = getLocationCoordinates(shipment.destination)

\* A calculated route was drawn that passes through the origin's coastal point and
\* not through the destination's.
C23_Witness ==
  /\ NoFeed
  /\ halfDegreeAway(coastalOf(shipment.origin, TRUE), getLocationCoordinates(shipment.origin))
  /\ ~ halfDegreeAway(coastalOf(shipment.destination, FALSE),
                      getLocationCoordinates(shipment.destination))
  /\ fallbackRoute[2] = coastalOf(shipment.origin, TRUE)
  /\ Len(fallbackRoute) > 3

\* The points of the route the fallback splits.
fallbackPoints ==
  toPoints(getShipmentRouteCoordinates(shipmentTrackingData, shipmentDetailsData, shipment))

\* The split index (counted from 0) the status gives for a route of n points.
splitIndex(n) ==
  CASE shipment.status = "delivered" -> n - 1
    [] shipment.status = "in_transit" -> n \div 2
    [] OTHER -> 0

\* The points i to j of the route, counted from 0.
pointsFromTo(i, j) == [ k \in 1..(j - i + 1) |-> fallbackPoints[i + k] ]

\* The effect drew a fallback route.
FallbackDrawn == Untracked /\ routeModel.source = "fallback"

\* C24: a fallback route of n points is split at n - 1 for a delivered shipment,
\* at floor(n / 2) for one in transit and at 0 otherwise; the completed segment is
\* points[0..index] and the upcoming one points[index..n-1], so that the last
\* completed point is the first upcoming point; for a pending shipment the
\* completed segment is the origin point and the upcoming segment the whole route.
C24_SplitByStatus ==
  FallbackDrawn =>
    /\ routeModel.completedPoints =
         pointsFromTo(0, splitIndex(Len(fallbackPoints)))
    /\ routeModel.upcomingPoints =
         pointsFromTo(splitIndex(Len(fallbackPoints)), Len(fallbackPoints) - 1)
    /\ routeModel.completedPoints[Len(routeModel.completedPoints)]
         = routeModel.upcomingPoints[1]
    /\ shipment.status = "pending" =>
         /\ routeModel.completedPoints = << fallbackPoints[1] >>
         /\ routeModel.upcomingPoints = fallbackPoints

\* A route with an even number of points was split for a shipment in transit.
C24_Witness ==
  /\ FallbackDrawn
  /\ shipment.status = "in_transit"
  /\ Len(fallbackPoints) % 2 = 0
  /\ Len(routeModel.completedPoints) = Len(fallbackPoints) \div 2 + 1

-----------------------------------------------------------------------------
(* Properties of the details-feed route (SpecFusion).                       *)

\* The milestones of the details record that have a location, in feed order.
located ==
  LET all == shipmentDetailsData[1].shipment_milestones
      F[i \in 0..Len(all)] ==
        IF i = 0 THEN << >>
        ELSE IF all[i].location # NULL THEN Append(F[i - 1], all[i]) ELSE F[i - 1]
  IN  F[Len(all)]

\* The positions of the located milestones with and without a start date.
datedOnes == { i \in 1..Len(located) : located[i].start_date # NULL }

undatedOnes == { i \in 1..Len(located) : located[i].start_date = NULL }

\* The rank of the located milestone i: a dated one after the dated ones of an
\* earlier day, an undated one after every dated one and the undated ones before it.
rankOf(i) ==
  IF i \in datedOnes
    THEN 1 + Cardinality({ j \in datedOnes :
                 \/ getTime(located[j].start_date[1]) < getTime(located[i].start_date[1])
                 \/ /\ getTime(located[j].start_date[1]) = getTime(located[i].start_date[1])
                    /\ j < i })
    ELSE 1 + Cardinality(datedOnes) + Cardinality({ j \in undatedOnes : j < i })

\* The coordinate of the port point of a milestone.
portOf(milestone) ==
  IF milestone.latitude # NULL /\ milestone.longitude # NULL
    THEN << milestone.latitude[1], milestone.longitude[1] >>
    ELSE getLocationCoordinates(milestone.location[1])

\* The port points in rank order.
portsByDate ==
  [ k \in 1..Len(located) |-> portOf(located[CHOOSE i \in 1..Len(located) : rankOf(i) = k]) ]

\* The ports from the k-th on, each followed by the waypoints to the next.
RECURSIVE portsWithWaypointsFrom(_)
portsWithWaypointsFrom(k) ==
  IF k > Len(portsByDate) THEN << >>
  ELSE IF k = Len(portsByDate) THEN << portsByDate[k] >>
  ELSE << portsByDate[k] >> \o calculateSeaWaypoints(portsByDate[k], portsByDate[k + 1])
                            \o portsWithWaypointsFrom(k + 1)

\* The details feed alone has the active shipment, and the fallback drew.
DetailsOnly == FallbackDrawn /\ DetailsAvailable

\* C25: without tracking feed, the route from the details feed has its port
\* points in ascending order of milestone date with every undated milestone after
\* all dated ones, each port point at the milestone's explicit latitude and
\* longitude when present and at the resolver's coordinate of its location
\* otherwise, and between two consecutive port points exactly the waypoints the
\* synthesizer returns for that pair, in order.
C25_DetailsRoute ==
  (DetailsOnly /\ Len(located) > 0) => fallbackRoute = portsWithWaypointsFrom(1)

\* Four located milestones, the later date first and undated ones between, drawn.
C25_Witness ==
  /\ DetailsOnly
  /\ Len(located) = 4
  /\ located[1].start_date # NULL /\ located[2].start_date = NULL
  /\ located[3].start_date # NULL
  /\ getTime(located[3].start_date[1]) < getTime(located[1].start_date[1])
  /\ Len(fallbackRoute) > 4

-----------------------------------------------------------------------------
(* Properties of the vessel position (SpecFusion).                          *)

\* The points of the two routes of the record.
routePointsOfRecord == Range(completedOfRecord) \cup Range(remainingOfRecord)

snappedToRemaining ==
  /\ Tracked
  /\ Len(remainingOfRecord) > 0
  /\ Len(completedOfRecord) = 0 \/ ~DeliveredOrClosed

\* The first index of remainingRoute the vessel is at.
snappedIndex ==
  Min({ k \in 1..Len(remainingOfRecord) : remainingOfRecord[k] = routeModel.vessel[1] })

\* C27: with the vessel snapped to remainingRoute[k], the upcoming polyline built
\* from the tracking feed contains no point of remainingRoute of an index lower
\* than k, and the snapped vessel position is in it as the first point only.
C27_NoBacktracking ==
  (snappedToRemaining /\ upcomingDrawn) =>
    /\ \A j \in 1..(snappedIndex - 1) : remainingOfRecord[j] \notin Range(upcoming)
    /\ \A i \in 2..Len(upcoming) : upcoming[i] # routeModel.vessel[1]

-----------------------------------------------------------------------------
(* The map views: the card list, its pages, the selection and the route     *)
(* lines (MapboxView in part_000, MapView in MapView.tsx; the two have the  *)
(* same state, handlers and pagination effects).                            *)

itemsPerPage == 7

\* Math.ceil(shipments.length / itemsPerPage)
totalPages(list) == (Len(list) + itemsPerPage - 1) \div itemsPerPage

\* shipments.slice(startIndex, endIndex)
paginatedShipments(list, page) ==
  LET startIndex == (page - 1) * itemsPerPage
      endIndex == startIndex + itemsPerPage
  IN  IF startIndex >= Len(list) THEN << >>
      ELSE SubSeq(list, startIndex + 1, Min({ endIndex, Len(list) }))

\* shipments.findIndex((s) => s.id === id), counted from 0; -1 when not found.
findIndex(list, id) ==
  IF \E i \in 1..Len(list) : list[i].id = id
    THEN Min({ i \in 1..Len(list) : list[i].id = id }) - 1
    ELSE -1

\* shipments.find((s) => s.id === expandedId) ?? null
findShipment(list, expanded) ==
  IF expanded = NULL \/ findIndex(list, expanded[1]) = -1 THEN NULL
  ELSE Some(list[findIndex(list, expanded[1]) + 1])

\* A step that stays on the first page.
pageOfIndexFirst(index) == 1

\* Math.floor(nextIndex / itemsPerPage) + 1
pageOfIndex(index) == index \div itemsPerPage + 1

LayerIds == { "completed-route", "upcoming-route", "vessel-to-origin" }

noLayers == [ id \in LayerIds |-> NULL ]

\* The lines the route effect adds for a shipment: the line from the vessel to
\* the origin port for a tracked vessel without completed route, and the two
\* route lines of more than one point.
linesOf(ship, trackingData, model) ==
  [ id \in LayerIds |->
      CASE id = "vessel-to-origin" ->
             IF trackingData # NULL /\ Len(trackingData.completedRoute) = 0
               THEN Some(ship.id) ELSE NULL
        [] id = "completed-route" ->
             IF Len(model.completedPoints) > 1 THEN Some(ship.id) ELSE NULL
        [] id = "upcoming-route" ->
             IF Len(model.upcomingPoints) > 1 THEN Some(ship.id) ELSE NULL ]

\* The lines on the map after the route effect ran for a shipment.  The Mapbox
\* view returns from a fallback route of fewer than 2 points before it removes
\* the lines (part_000:304, 323-331); the Google view removes them first.
routeLines(whichView, ship, trackingData, model, old) ==
  IF trackingData = NULL /\ model.source = "none"
    THEN IF whichView = "mapbox" THEN old ELSE noLayers
    ELSE linesOf(ship, trackingData, model)

\* The route effect: without active shipment every line is removed.
routeLayers(whichView, active, feed, detailsData, old) ==
  IF active = NULL THEN noLayers
  ELSE routeLines(whichView, active[1], getShipmentTrackingForMap(feed, active[1]),
                  routeEffect(whichView, feed, detailsData, active[1]), old)

-----------------------------------------------------------------------------
(* Specification of a map view: card clicks, page changes, previous/next    *)
(* steps and new lists, each followed by the renders and effects it causes. *)

\* Longest list of shipments.
MaxShipments == 9

\* The tracking feed: S1 on its way, S4 still at its origin.
MapFeed ==
  << [ shipment_id |-> "S1", shipment_order_number |-> "ORD-1",
       shipment_status |-> <<"i","n","_","t","r","a","n","s","i","t">>,
       route_info |-> [ origin |-> [coordinates |-> JsonPoint(0, -11)],
                        destination |-> [coordinates |-> DestinationPort] ],
       route_coordinates |->
         [ completed_route |-> << JsonPoint(0, -10), JsonPoint(0, -5) >>,
           remaining_route |-> << JsonPoint(0, 5), JsonPoint(0, 10) >> ],
       current_position |-> JsonPoint(0, 0) ],
     [ shipment_id |-> "S4", shipment_order_number |-> "ORD-4",
       shipment_status |-> <<"p","e","n","d","i","n","g">>,
       route_info |-> [ origin |-> [coordinates |-> JsonPoint(0, -11)],
                        destination |-> [coordinates |-> DestinationPort] ],
       route_coordinates |->
         [ completed_route |-> << >>,
           remaining_route |-> << JsonPoint(0, -10), JsonPoint(0, 10) >> ],
       current_position |-> JsonPoint(0, -10) ] >>

\* The details feed: the record of S3, with a single located milestone.
MapDetails == Some(SingleStopRecord("S3"))

\* The i-th shipment of the list.
ShipmentAt(i) ==
  [ id |-> "S" \o ToString(i), orderNumber |-> "ORD-" \o ToString(i),
    status |-> CASE i % 3 = 0 -> "pending" [] i % 3 = 1 -> "in_transit"
                 [] OTHER -> "delivered",
    origin |-> IF i % 2 = 0 THEN ShanghaiChina ELSE SaoPauloBrazil,
    destination |-> IF i % 2 = 0 THEN LosAngelesUSA ELSE Jeddah ]

\* Lists of no shipment, of one, of a full page, and of more than a page.
ShipmentLists ==
  { [ i \in 1..n |-> ShipmentAt(i) ] :
      n \in { 0, 1, itemsPerPage, itemsPerPage + 1, MaxShipments } }

InitMap ==
  /\ LOCATION_COORDINATES = LOCATION_COORDINATES_INITIAL
  /\ roundsAboveOne = FALSE
  /\ op = "load"
  /\ IdleResolver
  /\ IdleSynth
  /\ IdleCard
  /\ shipment = NULL /\ routeModel = NULL /\ consulted = NULL
  /\ shipmentTrackingData = MapFeed
  /\ shipmentDetailsData = MapDetails
  /\ view \in Views
  /\ shipments \in ShipmentLists
  /\ expandedId = NULL /\ activeId = NULL /\ currentPage = 1
  /\ activeShipment = NULL /\ layers = noLayers /\ renderPending = FALSE
  /\ filters = NULL /\ loading = NULL /\ error = NULL /\ requests = NULL

\* A card of the current page is clicked: it opens, or closes when it was open.
ClickCard ==
  /\ ~renderPending
  /\ \E i \in 1..Len(paginatedShipments(shipments, currentPage)) :
       LET clicked == paginatedShipments(shipments, currentPage)[i]
       IN  /\ activeId' = Some(clicked.id)
           /\ expandedId' = IF expandedId = Some(clicked.id) THEN NULL
                            ELSE Some(clicked.id)
  /\ renderPending' = TRUE
  /\ op' = "card"
  /\ UNCHANGED << cardVars, LOCATION_COORDINATES, roundsAboveOne, resolverVars, synthVars,
                  fusionVars, shipments, currentPage, activeShipment, layers,
                  filters, loading, error, requests >>

\* The Prev button: setCurrentPage((prev) => Math.max(1, prev - 1)).
ClickPrev ==
  /\ ~renderPending
  /\ totalPages(shipments) > 1 /\ currentPage # 1
  /\ currentPage' = Max({ 1, currentPage - 1 })
  /\ renderPending' = TRUE
  /\ op' = "page"
  /\ UNCHANGED << cardVars, LOCATION_COORDINATES, roundsAboveOne, resolverVars, synthVars,
                  fusionVars, shipments, expandedId, activeId, activeShipment, layers,
                  filters, loading, error, requests >>

\* The button of a page: setCurrentPage(page).
ClickPage ==
  /\ ~renderPending
  /\ totalPages(shipments) > 1
  /\ \E page \in 1..totalPages(shipments) : currentPage' = page
  /\ renderPending' = TRUE
  /\ op' = "page"
  /\ UNCHANGED << cardVars, LOCATION_COORDINATES, roundsAboveOne, resolverVars, synthVars,
                  fusionVars, shipments, expandedId, activeId, activeShipment, layers,
                  filters, loading, error, requests >>

\* The Next button: setCurrentPage((prev) => Math.min(totalPages, prev + 1)).
ClickNext ==
  /\ ~renderPending
  /\ totalPages(shipments) > 1 /\ currentPage # totalPages(shipments)
  /\ currentPage' = Min({ totalPages(shipments), currentPage + 1 })
  /\ renderPending' = TRUE
  /\ op' = "page"
  /\ UNCHANGED << cardVars, LOCATION_COORDINATES, roundsAboveOne, resolverVars, synthVars,
                  fusionVars, shipments, expandedId, activeId, activeShipment, layers,
                  filters, loading, error, requests >>

\* The index of the shipment a step reaches from the active one.
nextIndex(list, active, direction) ==
  (findIndex(list, active.id) + direction + Len(list)) % Len(list)

\* goToShipmentByOffset(direction): nothing without active shipment.
GoToShipmentByOffset ==
  /\ ~renderPending
  /\ activeShipment # NULL /\ Len(shipments) # 0
  /\ findIndex(shipments, activeShipment[1].id) # -1
  /\ \E direction \in { 1, -1 } :
       /\ currentPage' = pageOfIndex(nextIndex(shipments, activeShipment[1], direction))
       /\ activeId' = Some(shipments[nextIndex(shipments, activeShipment[1], direction) + 1].id)
       /\ expandedId' = Some(shipments[nextIndex(shipments, activeShipment[1], direction) + 1].id)
  /\ renderPending' = TRUE
  /\ op' = "step"
  /\ UNCHANGED << cardVars, LOCATION_COORDINATES, roundsAboveOne, resolverVars, synthVars,
                  fusionVars, shipments, activeShipment, layers,
                  filters, loading, error, requests >>

\* The page hands the view another list.
UpdateShipments ==
  /\ ~renderPending
  /\ shipments' \in ShipmentLists \ { shipments }
  /\ renderPending' = TRUE
  /\ op' = "list"
  /\ UNCHANGED << cardVars, LOCATION_COORDINATES, roundsAboveOne, resolverVars, synthVars,
                  fusionVars, expandedId, activeId, currentPage, activeShipment, layers,
                  filters, loading, error, requests >>

\* A render and its effects, each effect with the values of that render: the
\* page goes back to 1 when it is beyond the last one, the expansion is cleared
\* when the expanded shipment is not on the page, and the route effect runs when
\* the active shipment is another one.  A state set by an effect calls for another
\* render.  (The two pagination effects set nothing when their dependencies are
\* those of the render before, and the route effect leaves the lines as they
\* are when run again for the same shipment.)
Render ==
  /\ renderPending
  /\ currentPage' = IF currentPage > totalPages(shipments) /\ totalPages(shipments) > 0
                      THEN 1 ELSE currentPage
  /\ LET notShown ==
           /\ expandedId # NULL
           /\ findIndex(paginatedShipments(shipments, currentPage), expandedId[1]) = -1
     IN  /\ expandedId' = IF notShown THEN NULL ELSE expandedId
         /\ activeId' = IF notShown THEN NULL ELSE activeId
  /\ activeShipment' = findShipment(shipments, expandedId)
  /\ layers' = IF findShipment(shipments, expandedId) = activeShipment THEN layers
               ELSE routeLayers(view, findShipment(shipments, expandedId),
                                shipmentTrackingData, shipmentDetailsData, layers)
  /\ renderPending' = (currentPage' # currentPage \/ expandedId' # expandedId
                                                  \/ activeId' # activeId)
  /\ UNCHANGED << cardVars, LOCATION_COORDINATES, roundsAboveOne, resolverVars, synthVars,
                  fusionVars, op, shipments, filters, loading, error, requests >>

NextMap ==
  \/ ClickCard \/ ClickPrev \/ ClickPage \/ ClickNext
  \/ GoToShipmentByOffset \/ UpdateShipments \/ Render

SpecMap == InitMap /\ [][NextMap]_vars

-----------------------------------------------------------------------------
(* Properties of the map views (SpecMap).                                   *)

\* Every render and effect the latest event caused has run.
settled == op # "load" /\ ~renderPending

\* C28: in the Mapbox view, once the route effect has run for the active
\* shipment, every route layer on the map (completed-route, upcoming-route,
\* vessel-to-origin) was drawn for that shipment; with no active shipment, or one
\* that yields fewer than 2 route points, no layer of a shipment selected before
\* remains.
C28_NoStaleRoute ==
  (view = "mapbox" /\ ~renderPending) =>
    \A id \in LayerIds :
      layers[id] # NULL =>
        (activeShipment # NULL /\ layers[id] = Some(activeShipment[1].id))

\* The same for the Google view, which removes its lines before anything else.
GoogleNoStaleRoute ==
  (view = "google" /\ ~renderPending) =>
    \A id \in LayerIds :
      layers[id] # NULL =>
        (activeShipment # NULL /\ layers[id] = Some(activeShipment[1].id))

\* The cards of the current page.
shownIds ==
  { paginatedShipments(shipments, currentPage)[i].id :
      i \in 1..Len(paginatedShipments(shipments, currentPage)) }

\* The expanded shipment is none or one shown on the current page.
expandedShown == expandedId = NULL \/ expandedId[1] \in shownIds

\* The current page is one of the pages, when there is a page.
pageInRange ==
  totalPages(shipments) > 0 => currentPage \in 1..totalPages(shipments)

\* The position in the list of the shipment with that id.
positionOf(id) == CHOOSE i \in 1..Len(shipments) : shipments[i].id = id

\* The position after and before position i, going round the whole list.
following(i) == IF i = Len(shipments) THEN 1 ELSE i + 1

preceding(i) == IF i = 1 THEN Len(shipments) ELSE i - 1

\* A step of goToShipmentByOffset: the handler ran.
stepTaken == ~renderPending /\ renderPending' /\ op' = "step"

\* The step expands the shipment following or preceding the expanded one and
\* shows the page that contains it.
stepIsCyclic ==
  stepTaken =>
    /\ expandedId'[1] \in { shipments[following(positionOf(expandedId[1]))].id,
                            shipments[preceding(positionOf(expandedId[1]))].id }
    /\ expandedId'[1] \in
         { paginatedShipments(shipments, currentPage')[i].id :
             i \in 1..Len(paginatedShipments(shipments, currentPage')) }

\* The renders and effects after a step change neither selection nor page.
stepStays ==
  (renderPending /\ op = "step" /\ op' = "step") =>
    (expandedId' = expandedId /\ currentPage' = currentPage /\ ~renderPending')

\* C29: after any sequence of card clicks, page changes, previous/next steps
\* and list updates, once the effects have settled the expanded shipment is none
\* or one shown on the current page, and the current page is within
\* 1..totalPages whenever totalPages > 0; a previous/next step moves cyclically
\* through the whole list and switches to the page of the shipment it selects.
C29_SelectionOnPage ==
  /\ [](~renderPending => (expandedShown /\ pageInRange))
  /\ [][stepIsCyclic /\ stepStays]_vars

\* A step has selected the last shipment of a list of more than one page, the
\* second page shows it, and the effects have settled.
C29_Witness ==
  /\ op = "step" /\ ~renderPending
  /\ Len(shipments) > itemsPerPage
  /\ expandedId = Some(shipments[Len(shipments)].id)
  /\ currentPage = totalPages(shipments)
  /\ currentPage > 1

-----------------------------------------------------------------------------
(* The shipments page: the filters, the list and the calls of fetchShipments *)
(* (ShipmentsPage.tsx, services/api in part_007).                           *)

FilterKeys == { "search", "status", "mode", "origin", "destination" }

\* useState<ShipmentFiltersType>({})
noFilters == [ k \in FilterKeys |-> NULL ]

\* { ...prev, ...newFilters }: newFilters has some of the keys, a key of value
\* undefined included.
mergeFilters(prev, newFilters) ==
  [ k \in FilterKeys |-> IF k \in DOMAIN newFilters THEN newFilters[k] ELSE prev[k] ]

\* array.includes(value)
inArray(array, value) == \E i \in 1..Len(array) : array[i] = value

\* The shipments of list that pass test, in order.
RECURSIVE filterBy(_, _)
filterBy(list, passes) ==
  IF Len(list) = 0 THEN << >>
  ELSE (IF passes[list[1].id] THEN << list[1] >> ELSE << >>)
       \o filterBy(Tail(list), passes)

\* applyFilters, for filters without date range.
applyFilters(list, f) ==
  filterBy(list,
    [ id \in { list[i].id : i \in 1..Len(list) } |->
        LET s == list[CHOOSE i \in 1..Len(list) : list[i].id = id]
        IN  /\ (f.status # NULL /\ Len(f.status[1]) > 0) => inArray(f.status[1], s.status)
            /\ (f.mode # NULL /\ Len(f.mode[1]) > 0) => inArray(f.mode[1], s.mode)
            /\ (f.origin # NULL /\ Len(f.origin[1]) > 0) =>
                 includes(toLowerCase(s.origin), toLowerCase(f.origin[1]))
            /\ (f.destination # NULL /\ Len(f.destination[1]) > 0) =>
                 includes(toLowerCase(s.destination), toLowerCase(f.destination[1])) ])

\* searchShipments: the shipments one of whose texts includes the term.
searchShipments(list, searchTerm) ==
  IF Len(trim(searchTerm)) = 0 THEN list
  ELSE filterBy(list,
         [ id \in { list[i].id : i \in 1..Len(list) } |->
             LET s == list[CHOOSE i \in 1..Len(list) : list[i].id = id]
                 term == trim(toLowerCase(searchTerm))
             IN  \/ includes(toLowerCase(s.orderNumber), term)
                 \/ includes(toLowerCase(s.blNumber), term)
                 \/ includes(toLowerCase(s.consignee), term)
                 \/ includes(toLowerCase(s.shipper), term)
                 \/ s.customerRefNumber # NULL
                      /\ includes(toLowerCase(s.customerRefNumber[1]), term)
                 \/ includes(toLowerCase(s.origin), term)
                 \/ includes(toLowerCase(s.destination), term) ])

\* results.sort((a, b) => b.createdDate.getTime() - a.createdDate.getTime()):
\* the latest first, equal dates in the order they had.
RECURSIVE byCreatedDate(_)
byCreatedDate(list) ==
  IF Len(list) = 0 THEN << >>
  ELSE LET latest == CHOOSE i \in 1..Len(list) :
                       /\ \A j \in 1..Len(list) :
                            list[j].createdDate.time <= list[i].createdDate.time
                       /\ \A j \in 1..(i - 1) :
                            list[j].createdDate.time < list[i].createdDate.time
       IN  << list[latest] >>
           \o byCreatedDate(SubSeq(list, 1, latest - 1) \o SubSeq(list, latest + 1, Len(list)))

\* The second sort: the pinned shipments first, each group in the order it had.
pinnedFirst(list) ==
  filterBy(list, [ id \in { list[i].id : i \in 1..Len(list) } |->
                   list[CHOOSE i \in 1..Len(list) : list[i].id = id].is_pinned ])
  \o filterBy(list, [ id \in { list[i].id : i \in 1..Len(list) } |->
                      ~ list[CHOOSE i \in 1..Len(list) : list[i].id = id].is_pinned ])

\* The filtered, searched and sorted results of fetchShipments.
resultsOf(allShipments, f) ==
  pinnedFirst(byCreatedDate(
    IF f.search # NULL /\ Len(f.search[1]) > 0
      THEN searchShipments(applyFilters(allShipments, f), f.search[1])
      ELSE applyFilters(allShipments, f)))

\* results.slice(startIndex, endIndex)
slice(list, startIndex, endIndex) ==
  IF startIndex >= Len(list) THEN << >>
  ELSE SubSeq(list, startIndex + 1, Min({ endIndex, Len(list) }))

\* fetchShipments(page, pageSize, filters): what the promise resolves to.
fetchShipments(allShipments, page, pageSize, f) ==
  [ data |-> slice(resultsOf(allShipments, f), (page - 1) * pageSize, page * pageSize),
    total |-> Len(resultsOf(allShipments, f)),
    page |-> page,
    pageSize |-> pageSize,
    hasMore |-> page * pageSize < Len(resultsOf(allShipments, f)) ]

\* The page asks for the first 10000 shipments.
PageSize == 10000

\* Variant of notCanceled: the response of a call is taken whatever its flag.
canceledIgnored(request) == TRUE

\* if (!canceled): the effect of the call was not cleaned up.
notCanceled(request) == ~ request.canceled

-----------------------------------------------------------------------------
(* Specification of the shipments page: the filters change while calls of   *)
(* fetchShipments are in flight, and the responses arrive in any order.     *)

\* Most calls of fetchShipments in a behaviour.
MaxFetches == 3

\* What loadShipmentsFromJson returned.
AllShipments ==
  << [ id |-> "S1", orderNumber |-> <<"O","R","D","-","1">>, blNumber |-> <<"B","L","1">>,
       consignee |-> <<"A","c","m","e">>, shipper |-> <<"S","i","n","o">>,
       customerRefNumber |-> NULL, origin |-> ShanghaiChina,
       destination |-> LosAngelesUSA, status |-> "in_transit", mode |-> "sea",
       createdDate |-> DateAt(3), is_pinned |-> FALSE ],
     [ id |-> "S2", orderNumber |-> <<"O","R","D","-","2">>, blNumber |-> <<"B","L","2">>,
       consignee |-> <<"A","c","m","e">>, shipper |-> <<"I","n","d","u","s">>,
       customerRefNumber |-> Some(<<"R","E","F","-","S","H","A">>), origin |-> KarachiPakistan,
       destination |-> Jeddah, status |-> "pending", mode |-> "air",
       createdDate |-> DateAt(5), is_pinned |-> FALSE ],
     [ id |-> "S3", orderNumber |-> <<"O","R","D","-","3">>, blNumber |-> <<"B","L","3">>,
       consignee |-> <<"B","o","l","t">>, shipper |-> <<"R","i","o">>,
       customerRefNumber |-> NULL, origin |-> SaoPauloBrazil,
       destination |-> LosAngelesUSA, status |-> "delivered", mode |-> "sea",
       createdDate |-> DateAt(1), is_pinned |-> TRUE ],
     [ id |-> "S4", orderNumber |-> <<"O","R","D","-","4">>, blNumber |-> <<"B","L","4">>,
       consignee |-> <<"B","o","l","t">>, shipper |-> <<"S","i","n","o">>,
       customerRefNumber |-> NULL, origin |-> ShanghaiChina,
       destination |-> Jeddah, status |-> "in_transit", mode |-> "sea",
       createdDate |-> DateAt(5), is_pinned |-> FALSE ] >>

\* The changes of the filters the controls of the page make.
FilterChanges ==
  { [ status |-> Some(<< "in_transit" >>) ],
    [ status |-> Some(<< >>) ],
    [ mode |-> Some(<< "sea" >>) ],
    [ origin |-> Some(<<"s","h","a","n","g">>) ],
    [ search |-> Some(<<"S","H","A"," ">>) ],
    [ search |-> NULL ] }

InitPage ==
  /\ LOCATION_COORDINATES = LOCATION_COORDINATES_INITIAL
  /\ roundsAboveOne = FALSE
  /\ op = "load"
  /\ IdleResolver
  /\ IdleSynth
  /\ IdleFusion
  /\ IdleCard
  /\ IdleMap
  /\ shipments = << >>
  /\ filters = noFilters
  /\ loading = TRUE
  /\ error = NULL
  /\ requests = << [filters |-> noFilters, canceled |-> FALSE, done |-> FALSE] >>

\* The filters are set: the effect of the render before is cleaned up, which
\* cancels its call, and the effect runs again: loadShipments sets the loading
\* flag, clears the error and calls fetchShipments(1, 10000, filters).
setFilters(newFilters) ==
  /\ Len(requests) < MaxFetches
  /\ filters' = newFilters
  /\ loading' = TRUE
  /\ error' = NULL
  /\ requests' = Append([ i \in 1..Len(requests) |->
                           IF i = Len(requests)
                             THEN [requests[i] EXCEPT !.canceled = TRUE]
                             ELSE requests[i] ],
                        [filters |-> newFilters, canceled |-> FALSE, done |-> FALSE])
  /\ UNCHANGED << cardVars, mapVars, LOCATION_COORDINATES, roundsAboveOne, resolverVars,
                  synthVars, fusionVars, shipments >>

\* handleFilterChange(newFilters), handleSearchChange included.
HandleFilterChange ==
  /\ \E newFilters \in FilterChanges : setFilters(mergeFilters(filters, newFilters))
  /\ op' = "filter"

\* handleResetFilters()
HandleResetFilters ==
  /\ setFilters(noFilters)
  /\ op' = "reset"

\* The promise of a call resolves, and loadShipments goes on after its await.
ResponseArrives ==
  /\ \E i \in 1..Len(requests) :
       /\ ~ requests[i].done
       /\ requests' = [requests EXCEPT ![i].done = TRUE]
       /\ IF notCanceled(requests[i])
            THEN /\ shipments' = fetchShipments(AllShipments, 1, PageSize,
                                                requests[i].filters).data
                 /\ loading' = FALSE
            ELSE UNCHANGED << shipments, loading >>
  /\ op' = "response"
  /\ UNCHANGED << cardVars, mapVars, LOCATION_COORDINATES, roundsAboveOne, resolverVars,
                  synthVars, fusionVars, filters, error >>

NextPage == HandleFilterChange \/ HandleResetFilters \/ ResponseArrives

SpecPage == InitPage /\ [][NextPage]_vars

-----------------------------------------------------------------------------
(* Properties of the shipments page (SpecPage).                             *)

\* The response of a call that is not the latest arrives.
earlierResponse ==
  \E i \in 1..(Len(requests) - 1) :
    ~ requests[i].done /\ Len(requests') = Len(requests) /\ requests'[i].done

\* Every call of fetchShipments has been answered.
allAnswered == op # "load" /\ \A i \in 1..Len(requests) : requests[i].done

\* C30: a response of a fetch that was in flight when the filters changed
\* never updates the shipment list, the error or the loading flag, in whatever
\* order the responses arrive; once all fetches are answered the list is the
\* response to the latest filters and loading is false.
C30_StaleResponsesDiscarded ==
  /\ [][earlierResponse => UNCHANGED << shipments, error, loading >>]_vars
  /\ [](allAnswered =>
          /\ shipments = fetchShipments(AllShipments, 1, PageSize, filters).data
          /\ loading = FALSE)

\* The filters changed while a fetch was in flight, both responses have
\* arrived, the earlier fetch was for a different list, and the list is the one
\* of the later fetch.
C30_Witness ==
  /\ Len(requests) = 2
  /\ allAnswered
  /\ op = "response"
  /\ requests[1].canceled
  /\ fetchShipments(AllShipments, 1, PageSize, requests[1].filters).data
       # fetchShipments(AllShipments, 1, PageSize, requests[2].filters).data
  /\ shipments = fetchShipments(AllShipments, 1, PageSize, requests[2].filters).data

=============================================================================
